---- MODULE Spec2Model ----
(***************************************************************************)
(* Verbweaver backend: the node store (app/services/node_service.py), the  *)
(* repository manager (app/services/git_service.py) and the project        *)
(* deletion endpoint (app/api/v1/endpoints/projects.py).                   *)
(*                                                                         *)
(* Strings are sequences of tokens: a token is a run of characters that    *)
(* every string test of the code treats as a unit ("/" is the path         *)
(* separator, ".md" the structured suffix, ".." the parent directory).     *)
(* A text (file content) is the sequence of its "\n"-separated segments,   *)
(* so a text always has at least one segment and the empty text is         *)
(* <<EmptyLine>>.                                                          *)
(***************************************************************************)
EXTENDS Integers, Sequences, FiniteSets, TLC

VARIABLES fs, staged, commits, project, settings, gitEnv, clock, nextId, last, codec, flows

vars == <<fs, staged, commits, project, settings, gitEnv, clock, nextId, last, codec, flows>>

\* no request is in flight
NoFlows == <<>>

(***************************************************************************)
(* Bounds of the model                                                     *)
(***************************************************************************)
MaxBodyLen == 3
MaxTextLen == 4
MaxClock == 2

(***************************************************************************)
(* Generic helpers                                                         *)
(***************************************************************************)
EmptyMap == [k \in {} |-> 0]

Range(s) == {s[i] : i \in DOMAIN s}

SeqsUpTo(S, n) == UNION {[1..m -> S] : m \in 0..n}

NonEmptySeqsUpTo(S, n) == UNION {[1..m -> S] : m \in 1..n}

\* an assignment x = v followed by the statements F that use x
Bind(v, F(_)) == F(v)

\* dict.update(other): keys of other replace or extend those of base
MapUpdate(base, other) ==
  [k \in (DOMAIN base) \cup (DOMAIN other) |->
     IF k \in DOMAIN other THEN other[k] ELSE base[k]]

(***************************************************************************)
(* Node codec: lines of a text                                             *)
(***************************************************************************)
SepLine == [t |-> "sep"]          \* the line "---"
EmptyLine == [t |-> "empty"]      \* the line ""
FlowLine == [t |-> "flow"]        \* the line "{}" (yaml.dump of an empty dict)
BadLine == [t |-> "bad"]          \* a line the YAML scanner rejects, e.g. "{: ["
BadDateLine == [t |-> "baddate"]  \* "due: 2024-13-45": scans, but the timestamp constructor raises ValueError
ItemLine == [t |-> "item"]        \* "- x": a block sequence entry
TxtLine == [t |-> "txt"]          \* a line of prose (a YAML plain scalar)

KvLine(k, v) == [t |-> "kv", k |-> k, v |-> v]

\* order in which yaml.dump writes the keys (dict equality ignores it)
KeyOrder == <<"id", "title", "type", "created", "modified", "description",
              "tags", "links", "task", "position">>

RECURSIVE DumpFrom(_, _)
DumpFrom(M, i) ==
  IF i > Len(KeyOrder) THEN <<>>
  ELSE (IF KeyOrder[i] \in DOMAIN M
          THEN <<KvLine(KeyOrder[i], M[KeyOrder[i]])>> ELSE <<>>)
       \o DumpFrom(M, i + 1)

\* yaml.dump(metadata, default_flow_style=False, sort_keys=False) without its
\* final newline: one entry per key, "{}" for the empty dict
yaml_dump(M) == IF DOMAIN M = {} THEN <<FlowLine>> ELSE DumpFrom(M, 1)

\* f"---\n{yaml_str}---\n{content}"
stringify_markdown_with_frontmatter(metadata, content) ==
  <<SepLine>> \o yaml_dump(metadata) \o <<SepLine>> \o content

\* positions of a closing "\n---\n": the separator segment must leave at
\* least one segment for group(1) and be followed by a newline
ClosingSeps(text) ==
  {i \in 3..(Len(text) - 1) : text[i] = SepLine}

Min(S) == CHOOSE x \in S : \A y \in S : x <= y

Max(S) == CHOOSE x \in S : \A y \in S : x >= y

\* re.match(r'^---\n(.*?)\n---\n(.*)$', content, re.DOTALL)
FrontmatterMatches(text) ==
  /\ Len(text) >= 1
  /\ text[1] = SepLine
  /\ ClosingSeps(text) # {}

\* (.*?) is non-greedy: the block ends at the first closing separator
FrontmatterGreedyClose(text) == Max(ClosingSeps(text))

FrontmatterClose(text) == Min(ClosingSeps(text))

RECURSIVE DropEmpty(_)
DropEmpty(lines) ==
  IF lines = <<>> THEN <<>>
  ELSE IF Head(lines) = EmptyLine THEN DropEmpty(Tail(lines))
  ELSE <<Head(lines)>> \o DropEmpty(Tail(lines))

\* a leading "---" inside the block is a YAML document start marker
StripDocStart(lines) ==
  IF lines # <<>> /\ Head(lines) = SepLine THEN Tail(lines) ELSE lines

KvMap(lines) ==
  [k \in {lines[i].k : i \in DOMAIN lines} |->
     lines[Max({i \in DOMAIN lines : lines[i].k = k})].v]

\* yaml.safe_load(block): what the loader produces or raises
yaml_safe_load(block) ==
  LET ls == DropEmpty(StripDocStart(block))
      ts == {ls[i].t : i \in DOMAIN ls}
  IN  IF ls = <<>> THEN [kind |-> "none", val |-> EmptyMap]
      ELSE IF "bad" \in ts \/ "sep" \in ts THEN [kind |-> "yamlerror", val |-> EmptyMap]
      ELSE IF ts = {"flow"} /\ Len(ls) = 1 THEN [kind |-> "map", val |-> EmptyMap]
      ELSE IF ts = {"kv"} THEN [kind |-> "map", val |-> KvMap(ls)]
      ELSE IF ts = {"kv", "baddate"} \/ ts = {"baddate"}
        THEN [kind |-> "valueerror", val |-> EmptyMap]
      ELSE IF ts = {"item"} THEN [kind |-> "list", val |-> EmptyMap]
      ELSE IF ts = {"txt"} THEN [kind |-> "str", val |-> EmptyMap]
      ELSE [kind |-> "yamlerror", val |-> EmptyMap]

\* NodeService.parse_markdown_with_frontmatter.  kind tells what the returned
\* "metadata" is: a dict ("map"), or the list / string the loader produced;
\* raised is set when an exception other than yaml.YAMLError escapes.
parse_markdown_with_frontmatter(content) ==
  IF ~FrontmatterMatches(content)
    THEN [raised |-> FALSE, kind |-> "map", metadata |-> EmptyMap, body |-> content]
  ELSE
    Bind(FrontmatterClose(content), LAMBDA c :
    Bind(yaml_safe_load(SubSeq(content, 2, c - 1)), LAMBDA loaded :
      LET rest == SubSeq(content, c + 1, Len(content))
      IN  CASE loaded.kind = "yamlerror" ->
                 [raised |-> FALSE, kind |-> "map", metadata |-> EmptyMap, body |-> content]
            [] loaded.kind = "valueerror" ->
                 [raised |-> TRUE, kind |-> "map", metadata |-> EmptyMap, body |-> content]
            [] loaded.kind = "none" ->
                 [raised |-> FALSE, kind |-> "map", metadata |-> EmptyMap, body |-> rest]
            [] loaded.kind = "map" ->
                 [raised |-> FALSE, kind |-> "map", metadata |-> loaded.val, body |-> rest]
            [] OTHER ->
                 [raised |-> FALSE, kind |-> loaded.kind, metadata |-> EmptyMap,
                  body |-> rest]))

(***************************************************************************)
(* Strings and paths                                                       *)
(***************************************************************************)
Slash == "/"

IsAbs(str) == str # <<>> /\ str[1] = Slash

EndsWith(str, suffix) ==
  /\ Len(str) >= Len(suffix)
  /\ SubSeq(str, Len(str) - Len(suffix) + 1, Len(str)) = suffix

StartsWith(str, prefix) ==
  /\ Len(str) >= Len(prefix)
  /\ SubSeq(str, 1, Len(prefix)) = prefix

\* the "/"-separated components of a path string, empty components dropped
RECURSIVE SplitFrom(_, _, _)
SplitFrom(str, i, cur) ==
  IF i > Len(str) THEN (IF cur = <<>> THEN <<>> ELSE <<cur>>)
  ELSE IF str[i] = Slash
    THEN (IF cur = <<>> THEN <<>> ELSE <<cur>>) \o SplitFrom(str, i + 1, <<>>)
  ELSE SplitFrom(str, i + 1, Append(cur, str[i]))

Segs(str) == SplitFrom(str, 1, <<>>)

Dot == <<".">>
DotDot == <<"..">>

\* os.path.join(a, b)
os_path_join(a, b) ==
  IF IsAbs(b) THEN b
  ELSE IF a = <<>> \/ a[Len(a)] = Slash THEN a \o b
  ELSE a \o <<Slash>> \o b

\* os.path.basename(p): what follows the last "/"
os_path_basename(p) ==
  LET slashes == {i \in DOMAIN p : p[i] = Slash}
  IN  IF slashes = {} THEN p ELSE SubSeq(p, Max(slashes) + 1, Len(p))

\* os.path.dirname(p): what precedes the last "/", trailing slashes stripped
\* unless the head is all slashes
RECURSIVE RStripSlash(_)
RStripSlash(p) ==
  IF p # <<>> /\ p[Len(p)] = Slash THEN RStripSlash(SubSeq(p, 1, Len(p) - 1)) ELSE p

os_path_dirname(p) ==
  LET slashes == {i \in DOMAIN p : p[i] = Slash}
  IN  IF slashes = {} THEN <<>>
      ELSE LET head == SubSeq(p, 1, Max(slashes))
           IN  IF RStripSlash(head) = <<>> THEN head ELSE RStripSlash(head)

\* lexical normalisation of a component list: "." dropped, ".." pops
RECURSIVE NormFrom(_, _)
NormFrom(acc, segs) ==
  IF segs = <<>> THEN acc
  ELSE IF Head(segs) = Dot THEN NormFrom(acc, Tail(segs))
  ELSE IF Head(segs) = DotDot
    THEN NormFrom(IF acc = <<>> THEN acc ELSE SubSeq(acc, 1, Len(acc) - 1), Tail(segs))
  ELSE NormFrom(Append(acc, Head(segs)), Tail(segs))

\* working directory of the server process, as a filesystem key
Cwd == << <<"srv">> >>

\* Path(p).resolve(): the absolute, normalised location (no symlinks), as a
\* filesystem key (the list of components below "/")
PathResolve(p) == NormFrom(IF IsAbs(p) THEN <<>> ELSE Cwd, Segs(p))

RECURSIVE JoinSegs(_)
JoinSegs(segs) ==
  IF segs = <<>> THEN <<>>
  ELSE IF Len(segs) = 1 THEN Head(segs)
  ELSE Head(segs) \o <<Slash>> \o JoinSegs(Tail(segs))

\* str(Path(...).resolve()): the key written back as an absolute path string
KeyStr(key) == <<Slash>> \o JoinSegs(key)

\* str(Path(p)): "." components and repeated slashes dropped, ".." kept
RECURSIVE DropDots(_)
DropDots(segs) ==
  IF segs = <<>> THEN <<>>
  ELSE IF Head(segs) = Dot THEN DropDots(Tail(segs))
  ELSE <<Head(segs)>> \o DropDots(Tail(segs))

PathStr(p) ==
  IF IsAbs(p) THEN <<Slash>> \o JoinSegs(DropDots(Segs(p)))
  ELSE IF DropDots(Segs(p)) = <<>> THEN Dot
  ELSE JoinSegs(DropDots(Segs(p)))

\* Path(p).relative_to(base): the components of p after those of base;
\* ValueError (ok = FALSE) when p does not start with base
relative_to(p, base) ==
  LET ps == DropDots(Segs(p))
      bs == DropDots(Segs(base))
  IN  IF IsAbs(p) = IsAbs(base) /\ StartsWith(ps, bs)
        THEN [ok |-> TRUE, rel |-> SubSeq(ps, Len(bs) + 1, Len(ps))]
        ELSE [ok |-> FALSE, rel |-> <<>>]

\* a in b for two path strings: a occurs in b as a contiguous run
Infix(a, b) ==
  \E i \in 0..(Len(b) - Len(a)) : SubSeq(b, i + 1, i + Len(a)) = a

(***************************************************************************)
(* Filesystem: a function from keys (component lists) to entries           *)
(***************************************************************************)
DirEntry == [kind |-> "dir", text |-> <<>>]

FileEntry(text) == [kind |-> "file", text |-> text]

IsDirKey(fsys, key) == key \in DOMAIN fsys /\ fsys[key].kind = "dir"

IsFileKey(fsys, key) == key \in DOMAIN fsys /\ fsys[key].kind = "file"

\* kernel path resolution: every component but the last must be an existing
\* directory; ".." steps to the parent of the directory reached so far
RECURSIVE Walk(_, _, _)
Walk(fsys, cur, segs) ==
  IF segs = <<>> THEN [ok |-> TRUE, key |-> cur]
  ELSE IF ~IsDirKey(fsys, cur) THEN [ok |-> FALSE, key |-> cur]
  ELSE IF Head(segs) = Dot THEN Walk(fsys, cur, Tail(segs))
  ELSE IF Head(segs) = DotDot
    THEN Walk(fsys, IF cur = <<>> THEN cur ELSE SubSeq(cur, 1, Len(cur) - 1), Tail(segs))
  ELSE Walk(fsys, Append(cur, Head(segs)), Tail(segs))

Lookup(fsys, p) == Walk(fsys, IF IsAbs(p) THEN <<>> ELSE Cwd, Segs(p))

\* os.path.exists(p)
os_path_exists(fsys, p) == Lookup(fsys, p).ok /\ Lookup(fsys, p).key \in DOMAIN fsys

\* os.path.isdir(p)
os_path_isdir(fsys, p) == Lookup(fsys, p).ok /\ IsDirKey(fsys, Lookup(fsys, p).key)

FsPut(fsys, key, entry) ==
  [k \in (DOMAIN fsys) \cup {key} |-> IF k = key THEN entry ELSE fsys[k]]

IsPrefix(a, b) == Len(a) <= Len(b) /\ SubSeq(b, 1, Len(a)) = a

\* shutil.rmtree / os.remove: the key and everything below it
FsRemove(fsys, key) ==
  [k \in {x \in DOMAIN fsys : ~IsPrefix(key, x)} |-> fsys[k]]

\* os.makedirs(p, exist_ok=True): creates the missing components in order;
\* ok = FALSE when a component exists and is not a directory
RECURSIVE MkdirsFrom(_, _, _)
MkdirsFrom(fsys, cur, segs) ==
  IF segs = <<>> THEN [ok |-> TRUE, fs |-> fsys, key |-> cur]
  ELSE IF Head(segs) = Dot THEN MkdirsFrom(fsys, cur, Tail(segs))
  ELSE IF Head(segs) = DotDot
    THEN MkdirsFrom(fsys, IF cur = <<>> THEN cur ELSE SubSeq(cur, 1, Len(cur) - 1), Tail(segs))
  ELSE LET nxt == Append(cur, Head(segs))
       IN  IF IsFileKey(fsys, nxt) THEN [ok |-> FALSE, fs |-> fsys, key |-> nxt]
           ELSE MkdirsFrom(IF nxt \in DOMAIN fsys THEN fsys ELSE FsPut(fsys, nxt, DirEntry),
                           nxt, Tail(segs))

os_makedirs(fsys, p) == MkdirsFrom(fsys, IF IsAbs(p) THEN <<>> ELSE Cwd, Segs(p))

\* open(p, 'w') and write: the parent must resolve to a directory and the
\* target must not be a directory; ok = FALSE is the OSError the open raises
WriteFile(fsys, p, text) ==
  LET r == Lookup(fsys, p)
  IN  IF r.ok /\ r.key # <<>> /\ ~IsDirKey(fsys, r.key)
         /\ IsDirKey(fsys, SubSeq(r.key, 1, Len(r.key) - 1))
        THEN [ok |-> TRUE, fs |-> FsPut(fsys, r.key, FileEntry(text)), key |-> r.key]
        ELSE [ok |-> FALSE, fs |-> fsys, key |-> r.key]

\* os.listdir(key): the names directly below a directory
ListDir(fsys, key) ==
  {k[Len(k)] : k \in {x \in DOMAIN fsys : Len(x) = Len(key) + 1 /\ IsPrefix(key, x)}}

(***************************************************************************)
(* git, as the subprocesses of git_service.py see it                       *)
(*   env = "ok":       git behaves as git does                             *)
(*   env = "nogit":    every git subprocess fails (binary missing, ...)    *)
(*   env = "nocommit": init/add/rm work, commit fails (no identity, ...)   *)
(***************************************************************************)
GitEnvs == {"ok", "nogit", "nocommit"}

PatternLine(p) == [t |-> "pattern", p |-> p]

\* gitignore_content of initialize_project: the two directory patterns and
\* the file patterns (no name of the model matches a file pattern)
gitignore_content ==
  <<TxtLine, PatternLine(<<"*", ".tmp">>), PatternLine(<<"nodes", Slash>>),
    PatternLine(<<"templates", Slash>>), EmptyLine>>

\* directory names excluded by the ignore rules in the work tree
IgnoredDirs(fsys, root) ==
  LET k == Append(root, <<".gitignore">>)
  IN  IF IsFileKey(fsys, k)
        THEN {SubSeq(l.p, 1, Len(l.p) - 1) :
                l \in {x \in Range(fsys[k].text) : x.t = "pattern" /\ x.p[Len(x.p)] = Slash}}
        ELSE {}

GitIgnored(fsys, root, rel) ==
  \E i \in DOMAIN rel :
    /\ rel[i] \in IgnoredDirs(fsys, root)
    /\ IsDirKey(fsys, root \o SubSeq(rel, 1, i))

GitIsRepo(fsys, root) == IsDirKey(fsys, Append(root, <<".git">>))

\* the files a pathspec names: the file itself, or every file below a directory
FilesUnder(fsys, root, rel) ==
  {SubSeq(k, Len(root) + 1, Len(k)) :
     k \in {x \in DOMAIN fsys : IsPrefix(root \o rel, x) /\ fsys[x].kind = "file"}}

\* git add <rels> with cwd = root: exit status and the index afterwards
git_add(fsys, idx, root, rels, env) ==
  IF env = "nogit" \/ ~GitIsRepo(fsys, root) THEN [ok |-> FALSE, staged |-> idx]
  ELSE IF \E r \in rels : (root \o r) \notin DOMAIN fsys THEN [ok |-> FALSE, staged |-> idx]
  ELSE [ok |-> \A r \in rels : ~GitIgnored(fsys, root, r),
        staged |-> idx \cup UNION {{JoinSegs(f) : f \in {g \in FilesUnder(fsys, root, r) :
                                                       ~GitIgnored(fsys, root, g)}} : r \in rels}]

Commit(added, removed, message) == [added |-> added, removed |-> removed, message |-> message]

\* git commit -m message: fails when nothing is staged
git_commit(idx, history, message, env) ==
  IF env # "ok" \/ idx = {} THEN [ok |-> FALSE, staged |-> idx, commits |-> history]
  ELSE [ok |-> TRUE, staged |-> {},
        commits |-> Append(history, Commit({x \in idx : x[1] # "rm"},
                                           {Tail(x) : x \in {y \in idx : y[1] = "rm"}}, message))]

Tracked(idx, history) ==
  idx \cup UNION {history[i].added : i \in DOMAIN history}

\* git rm <rel>: fails when the path is not tracked
git_rm(idx, history, rel, env) ==
  IF env = "nogit" \/ JoinSegs(rel) \notin Tracked(idx, history)
    THEN [ok |-> FALSE, staged |-> idx]
    ELSE [ok |-> TRUE, staged |-> (idx \ {JoinSegs(rel)}) \cup {<<"rm">> \o JoinSegs(rel)}]

(***************************************************************************)
(* Repository manager: GitService                                          *)
(***************************************************************************)
GitConfig(type, path) == [type |-> type, path |-> path]

\* GitService._determine_repo_path; an absent, None or empty type / path is
\* "" / <<>> (the code tests both for truth only)
determine_repo_path(proj, sett) ==
  IF proj.git_config.type = "local" /\ proj.git_config.path # <<>>
    THEN KeyStr(PathResolve(proj.git_config.path))
    ELSE PathStr(os_path_join(sett.GIT_PROJECTS_ROOT, <<proj.id>>))

\* initialize_project, lines 51-58: the configuration written back; this
\* variant marks the project local as soon as the path is present
corrected_git_config_keep_path(cfg, repo_path) ==
  IF cfg.path = <<>>
    THEN GitConfig(IF cfg.type = "" THEN "local" ELSE cfg.type, KeyStr(PathResolve(repo_path)))
    ELSE GitConfig("local", cfg.path)

corrected_git_config(cfg, repo_path) ==
  IF cfg.path = <<>> \/ PathResolve(cfg.path) # PathResolve(repo_path)
    THEN GitConfig(IF cfg.type = "" THEN "local" ELSE cfg.type, KeyStr(PathResolve(repo_path)))
    ELSE cfg

\* GitConfigBase(**git_config): type defaults to "local"
GitConfigBase(cfg) == GitConfig(IF cfg.type = "" THEN "local" ELSE cfg.type, cfg.path)

\* empty_template_content of initialize_project
empty_template_content ==
  <<SepLine, KvLine("title", <<"Empty">>), KvLine("type", "node"),
    KvLine("description", <<"A blank starting point.">>),
    KvLine("tags", <<"empty", "basic">>), SepLine,
    EmptyLine, TxtLine, EmptyLine, TxtLine, EmptyLine>>

\* the try block of initialize_project (lines 62-102) on a root that exists;
\* failed = an exception was caught by one of the except clauses
initialize_try(fsys, idx, history, root, env) ==
  IF env = "nogit" THEN [fs |-> fsys, staged |-> idx, commits |-> history, failed |-> TRUE]
  ELSE
    LET f1 == IF Append(root, <<".git">>) \in DOMAIN fsys THEN fsys
              ELSE FsPut(FsPut(fsys, Append(root, <<".git">>), DirEntry),
                         root \o << <<".git">>, <<"HEAD">> >>, FileEntry(<<TxtLine>>))
        f2 == FsPut(f1, Append(root, <<".gitignore">>), FileEntry(gitignore_content))
        nodesKey == Append(root, <<"nodes">>)
        tmplKey == Append(root, <<"templates">>)
        emptyKey == Append(tmplKey, <<"Empty", ".md">>)
    IN  IF IsDirKey(f1, Append(root, <<".gitignore">>)) \/ IsFileKey(f2, nodesKey)
          THEN [fs |-> f1, staged |-> idx, commits |-> history, failed |-> TRUE]
        ELSE LET f3 == IF nodesKey \in DOMAIN f2 THEN f2 ELSE FsPut(f2, nodesKey, DirEntry)
             IN  IF IsFileKey(f3, tmplKey)
                   THEN [fs |-> f3, staged |-> idx, commits |-> history, failed |-> TRUE]
                 ELSE
                   LET f4 == IF tmplKey \in DOMAIN f3 THEN f3 ELSE FsPut(f3, tmplKey, DirEntry)
                   IN  IF IsDirKey(f4, emptyKey)
                         THEN [fs |-> f4, staged |-> idx, commits |-> history, failed |-> TRUE]
                       ELSE
                         LET f5 == FsPut(f4, emptyKey, FileEntry(empty_template_content))
                             a == git_add(f5, idx, root,
                                          { << <<".gitignore">> >>, << <<"nodes">> >>,
                                            << <<"templates">> >>,
                                            << <<"templates">>, <<"Empty", ".md">> >> }, env)
                             c == git_commit(a.staged, history, "Initial commit", env)
                         IN  IF ~a.ok
                               THEN [fs |-> f5, staged |-> a.staged, commits |-> history,
                                     failed |-> TRUE]
                               ELSE [fs |-> f5, staged |-> c.staged, commits |-> c.commits,
                                     failed |-> ~c.ok]

\* GitService.initialize_project: raised = the mkdir of the root failed (an
\* OSError that propagates); config = the GitConfigBase returned
initialize_project(fsys, idx, history, proj, sett, env) ==
  Bind(determine_repo_path(proj, sett), LAMBDA repo_path :
  Bind(os_makedirs(fsys, repo_path), LAMBDA mk :
    IF ~mk.ok
      THEN [raised |-> TRUE, fs |-> fsys, staged |-> idx, commits |-> history,
            config |-> proj.git_config, failed |-> FALSE, root |-> mk.key]
      ELSE Bind(initialize_try(mk.fs, idx, history, mk.key, env), LAMBDA t :
             [raised |-> FALSE, fs |-> t.fs, staged |-> t.staged, commits |-> t.commits,
              config |-> GitConfigBase(corrected_git_config(proj.git_config, repo_path)),
              failed |-> t.failed, root |-> mk.key])))

\* the containment test of delete_project_repository (lines 168-169): a
\* substring test against GIT_PROJECTS_ROOT, a string comparison against the
\* configured path
is_default_location(proj, sett) ==
  Infix(sett.GIT_PROJECTS_ROOT, determine_repo_path(proj, sett))

is_configured_path(proj, sett) ==
  proj.git_config.path = determine_repo_path(proj, sett)

\* GitService.delete_project_repository: nothing is raised on any branch
delete_project_repository(fsys, proj, sett) ==
  LET repo_path == determine_repo_path(proj, sett)
      r == Lookup(fsys, repo_path)
  IN  IF ~os_path_exists(fsys, repo_path)
        THEN [fs |-> fsys, outcome |-> "skipped", raised |-> FALSE]
      ELSE IF ~(is_default_location(proj, sett) \/ is_configured_path(proj, sett))
        THEN [fs |-> fsys, outcome |-> "refused", raised |-> FALSE]
      ELSE [fs |-> FsRemove(fsys, r.key), outcome |-> "deleted", raised |-> FALSE]

(***************************************************************************)
(* Specification of the repository manager: one project record, created    *)
(* (projects.py create_project), reconfigured (update_project) and deleted *)
(* (delete_project)                                                        *)
(***************************************************************************)
ProjectId == "p1"

\* what exists before any project is created
BaseFs ==
  [k \in { <<>>, << <<"srv">> >>, << <<"etc">> >>, << <<"etc">>, <<"passwd">> >> } |->
     IF k = << <<"etc">>, <<"passwd">> >> THEN FileEntry(<<TxtLine>>) ELSE DirEntry]

RootChoices == { <<".", Slash, "git-repos">>, <<Slash, "data">> }

ConfigTypes == {"", "local", "remote"}

ConfigPaths == { <<>>, <<Slash, "work">>, <<"work">>, <<Slash, "srv", Slash, "git-repos", Slash, ProjectId>> }

NoCodec == [pc |-> "idle"]

NoOp == [op |-> "none"]

InitRepo ==
  /\ fs = BaseFs
  /\ staged = {}
  /\ commits = <<>>
  /\ settings \in [GIT_PROJECTS_ROOT : RootChoices]
  /\ gitEnv \in GitEnvs
  /\ project \in [id : {ProjectId}, state : {"new"},
                  git_config : {GitConfig(t, p) : t \in ConfigTypes, p \in ConfigPaths}]
  /\ clock = 0
  /\ nextId = 1
  /\ last = NoOp
  /\ codec = NoCodec
  /\ flows = NoFlows

\* projects.py create_project, steps 4-6: initialise the repository and
\* persist the configuration it returns
CreateProject ==
  /\ project.state = "new"
  /\ \E r \in {initialize_project(fs, staged, commits, project, settings, gitEnv)} :
       /\ fs' = r.fs
       /\ staged' = r.staged
       /\ commits' = r.commits
       /\ project' = IF r.raised THEN project
                     ELSE [project EXCEPT !.state = "ready", !.git_config = r.config]
       /\ last' = [op |-> "create_project", env |-> gitEnv, raised |-> r.raised,
                   failed |-> r.failed, root |-> r.root, given |-> project.git_config,
                   fresh |-> r.root \notin DOMAIN fs]
  /\ UNCHANGED <<settings, gitEnv, clock, nextId, codec, flows>>

\* projects.py update_project: git_config replaced by the request's
UpdateProject(cfg) ==
  /\ project.state = "ready"
  /\ cfg # project.git_config
  /\ last.op # "update_project"
  /\ project' = [project EXCEPT !.git_config = cfg]
  /\ last' = [op |-> "update_project"]
  /\ UNCHANGED <<fs, staged, commits, settings, gitEnv, clock, nextId, codec, flows>>

\* projects.py delete_project: delete the repository, then the record, then
\* answer "Project deleted successfully"
DeleteProject ==
  /\ project.state = "ready"
  /\ \E r \in {delete_project_repository(fs, project, settings)} :
       /\ fs' = r.fs
       /\ project' = IF r.raised THEN project ELSE [project EXCEPT !.state = "deleted"]
       /\ last' = [op |-> "delete_project", outcome |-> r.outcome,
                   root |-> PathResolve(determine_repo_path(project, settings)),
                   verified |-> is_default_location(project, settings)
                                \/ is_configured_path(project, settings),
                   before |-> fs,
                   response |-> IF r.raised THEN "error" ELSE "Project deleted successfully"]
  /\ UNCHANGED <<staged, commits, settings, gitEnv, clock, nextId, codec, flows>>

NextRepo ==
  \/ CreateProject
  \/ \E t \in {"local", "remote"}, p \in ConfigPaths : UpdateProject(GitConfig(t, p))
  \/ DeleteProject

SpecRepo == InitRepo /\ [][NextRepo]_vars

(***************************************************************************)
(* Claims about the repository manager (checked under SpecRepo)            *)
(***************************************************************************)
\* C4: deleteRepository() removes the repository root only when the resolved
\* path lies inside the default root or the project's configured path; when
\* its verification of the path fails it deletes nothing and reports an error
\* to its caller, so that the caller does not report a successful deletion.
C4_DeleteOnlyInsideElseError ==
  last.op = "delete_project" =>
    /\ (fs # last.before => last.outcome = "deleted" /\ last.root \notin DOMAIN fs)
    /\ (~last.verified => fs = last.before /\ last.response # "Project deleted successfully")

\* C5: when version-control initialisation or the initial commit fails during
\* initialize(), initialize() still returns normally and the root directory,
\* nodes/ and templates/ all exist afterwards.
C5_StructureExistsAfterGitFailure ==
  (last.op = "create_project" /\ last.failed) =>
    /\ ~last.raised
    /\ IsDirKey(fs, last.root)
    /\ IsDirKey(fs, Append(last.root, <<"nodes">>))
    /\ IsDirKey(fs, Append(last.root, <<"templates">>))

\* C6: after initialize() on a fresh root with working version control the
\* root is a version-controlled tree holding the ignore-rules file, nodes/,
\* templates/ and the canonical empty template, and exactly one initial
\* commit exists that records them.
C6_InitialCommitRecordsStructure ==
  (last.op = "create_project" /\ last.env = "ok" /\ last.fresh /\ ~last.raised) =>
    /\ GitIsRepo(fs, last.root)
    /\ IsFileKey(fs, Append(last.root, <<".gitignore">>))
    /\ IsDirKey(fs, Append(last.root, <<"nodes">>))
    /\ IsDirKey(fs, Append(last.root, <<"templates">>))
    /\ IsFileKey(fs, last.root \o << <<"templates">>, <<"Empty", ".md">> >>)
    /\ Len(commits) = 1
    /\ { <<".gitignore">>, <<"templates", Slash, "Empty", ".md">> } \subseteq commits[1].added

\* C7: resolvePath(project) is the configured local path resolved to absolute,
\* else the default root joined with the project id, and it is stable across
\* initialisation: a repository manager built from the project carrying the
\* configuration initialize() returned resolves to the root that initialize()
\* populated.
C7_ResolvePathStable ==
  (last.op = "create_project" /\ ~last.raised) =>
    /\ last.root = (IF last.given.type = "local" /\ last.given.path # <<>>
                      THEN PathResolve(last.given.path)
                      ELSE PathResolve(settings.GIT_PROJECTS_ROOT) \o << <<project.id>> >>)
    /\ IsDirKey(fs, last.root)
    /\ PathResolve(determine_repo_path(project, settings)) = last.root

\* an initialisation that had to correct the stored configuration and
\* populated the root
C7_Witness ==
  /\ last.op = "create_project"
  /\ ~last.raised
  /\ project.git_config.path # last.given.path
  /\ last.given.path # <<>>
  /\ IsDirKey(fs, Append(last.root, <<"nodes">>))

(***************************************************************************)
(* Specification of the codec: the inputs are drawn by the initial state,  *)
(* Encode applies stringify_markdown_with_frontmatter and Decode applies   *)
(* parse_markdown_with_frontmatter                                         *)
(***************************************************************************)
CodecTitles == { <<"Foo">>, <<>> }

Restrict(f, ks) == [k \in ks |-> f[k]]

CodecMetas ==
  {Restrict(full, ks) :
     full \in [title : CodecTitles, type : {"file", "task"}, links : {<<>>, <<1>>}],
     ks \in SUBSET {"title", "type", "links"}}

BodyLines == {EmptyLine, SepLine, TxtLine, KvLine("title", <<"Foo">>)}

CodecBodies == NonEmptySeqsUpTo(BodyLines, MaxBodyLen)

TextLines == {SepLine, EmptyLine, TxtLine, KvLine("title", <<"Foo">>), FlowLine,
              ItemLine, BadLine, BadDateLine}

CodecTexts == NonEmptySeqsUpTo(TextLines, MaxTextLen)

NoOut == [raised |-> FALSE, kind |-> "map", metadata |-> EmptyMap, body |-> <<>>]

InitCodec ==
  /\ fs = BaseFs
  /\ staged = {}
  /\ commits = <<>>
  /\ settings = [GIT_PROJECTS_ROOT |-> <<Slash, "data">>]
  /\ gitEnv = "ok"
  /\ project = [id |-> ProjectId, state |-> "new", git_config |-> GitConfig("", <<>>)]
  /\ clock = 0
  /\ nextId = 1
  /\ last = NoOp
  /\ codec \in {[pc |-> "pair", M |-> m, B |-> b, text |-> <<>>, out |-> NoOut] :
                  m \in CodecMetas, b \in CodecBodies}
          \cup {[pc |-> "raw", M |-> EmptyMap, B |-> <<>>, text |-> t, out |-> NoOut] :
                  t \in CodecTexts}
  /\ flows = NoFlows

Encode ==
  /\ codec.pc = "pair"
  /\ codec' = [codec EXCEPT !.pc = "encoded",
                            !.text = stringify_markdown_with_frontmatter(codec.M, codec.B)]
  /\ UNCHANGED <<fs, staged, commits, project, settings, gitEnv, clock, nextId, last, flows>>

Decode ==
  /\ codec.pc \in {"encoded", "raw"}
  /\ codec' = [codec EXCEPT !.pc = IF codec.pc = "raw" THEN "rawdecoded" ELSE "decoded",
                            !.out = parse_markdown_with_frontmatter(codec.text)]
  /\ UNCHANGED <<fs, staged, commits, project, settings, gitEnv, clock, nextId, last, flows>>

NextCodec == Encode \/ Decode

SpecCodec == InitCodec /\ [][NextCodec]_vars

\* C8: codec round trip: for any metadata map M (including the empty map) and
\* any body B (including bodies that contain separator lines),
\* decode(encode(M, B)) = (M, B).
C8_RoundTrip ==
  codec.pc = "decoded" =>
    /\ ~codec.out.raised
    /\ codec.out.kind = "map"
    /\ codec.out.metadata = codec.M
    /\ codec.out.body = codec.B

\* a round trip of a non-empty map with a body that holds a separator line
\* followed by more text
C8_Witness ==
  /\ codec.pc = "decoded"
  /\ DOMAIN codec.M # {}
  /\ \E i \in DOMAIN codec.B : i < Len(codec.B) /\ codec.B[i] = SepLine

\* the text has a leading metadata block and the block parses to a key/value
\* map (or is empty)
BlockWellFormed(text) ==
  /\ FrontmatterMatches(text)
  /\ yaml_safe_load(SubSeq(text, 2, FrontmatterClose(text) - 1)).kind \in {"map", "none"}

\* C9: lenient decoding: for any input text decode never raises and returns a
\* key/value map plus a body; when the leading metadata block is absent or
\* malformed (including a block whose content does not parse to a key/value
\* map) the metadata is empty and the body is the entire input.
C9_LenientDecode ==
  codec.pc = "rawdecoded" =>
    /\ ~codec.out.raised
    /\ codec.out.kind = "map"
    /\ (~BlockWellFormed(codec.text) =>
          codec.out.metadata = EmptyMap /\ codec.out.body = codec.text)

(***************************************************************************)
(* Node store: NodeService                                                 *)
(***************************************************************************)
Md == <<".md">>

MetadataSuffix == <<".metadata", ".md">>

\* characters re.sub(r'[<>:"/\\|?*]', '-', name) replaces
IllegalTokens == {"<", ">", ":", "\"", "/", "\\", "|", "?", "*"}

WhitespaceTokens == {" "}

RECURSIVE LStrip(_)
LStrip(str) ==
  IF str # <<>> /\ Head(str) \in WhitespaceTokens THEN LStrip(Tail(str)) ELSE str

RECURSIVE RStrip(_)
RStrip(str) ==
  IF str # <<>> /\ str[Len(str)] \in WhitespaceTokens
    THEN RStrip(SubSeq(str, 1, Len(str) - 1)) ELSE str

RECURSIVE CollapseDashes(_)
CollapseDashes(str) ==
  IF Len(str) < 2 THEN str
  ELSE IF str[1] = "-" /\ str[2] = "-" THEN CollapseDashes(Tail(str))
  ELSE <<Head(str)>> \o CollapseDashes(Tail(str))

\* NodeService.sanitize_filename
sanitize_filename(name) ==
  CollapseDashes(RStrip(LStrip(
    [i \in DOMAIN name |-> IF name[i] \in IllegalTokens THEN "-" ELSE name[i]])))

\* str.replace('.md', ''): every occurrence is removed
RECURSIVE RemoveMd(_)
RemoveMd(str) ==
  IF str = <<>> THEN <<>>
  ELSE IF Head(str) = ".md" THEN RemoveMd(Tail(str))
  ELSE <<Head(str)>> \o RemoveMd(Tail(str))

\* sanitized_name if sanitized_name.endswith('.md') else f"{sanitized_name}.md"
md_filename(sanitized) == IF EndsWith(sanitized, Md) THEN sanitized ELSE sanitized \o Md

NoContent == <<>>     \* content None
NoParent == <<>>      \* hardLinks.parent None
NoNode == [none |-> TRUE]

\* the None a read returns for a path that does not exist
NoRead == [found |-> FALSE, raised |-> FALSE, node |-> NoNode, touched |-> {}]

HeadingLine(title) == [t |-> "heading", s |-> title]

\* a task value that is not a mapping (task: null in the file)
NullTask == [null |-> TRUE]

\* the dict literal of read_node lines 71-77 / create_node lines 151-157
default_metadata(id, title, type, created, modified) ==
  [id |-> id, title |-> title, type |-> type, created |-> created, modified |-> modified]

\* lines 126-128 of read_node; raised when metadata['task'] has no .get
task_status(metadata) ==
  IF "task" \notin DOMAIN metadata THEN [raised |-> FALSE, status |-> "none"]
  ELSE IF metadata["task"] = NullTask THEN [raised |-> TRUE, status |-> "none"]
  ELSE [raised |-> FALSE,
        status |-> IF "status" \in DOMAIN metadata["task"]
                     THEN metadata["task"].status ELSE "none"]

\* the overlay of a decoded file onto the defaults (lines 83-90 and 95-101):
\* an exception of the parse, or of dict.update on something that is not a
\* mapping, is swallowed and leaves the defaults
overlay(defaults, text) ==
  Bind(parse_markdown_with_frontmatter(text), LAMBDA parsed :
    IF parsed.raised \/ parsed.kind # "map"
      THEN [metadata |-> defaults, content |-> NoContent, ok |-> FALSE]
      ELSE [metadata |-> MapUpdate(defaults, parsed.metadata), content |-> parsed.body,
            ok |-> TRUE])

\* NodeService.read_node.  id and now are what generate_id() and the two
\* datetime.now() calls return.  found = FALSE is the None result; touched
\* is the set of files and directories whose content the call read.
read_node(fsys, project_path, path, id, created, modified) ==
  LET full_path == os_path_join(project_path, path)
      name == os_path_basename(path)
      is_markdown == EndsWith(name, Md)
      metadata_path == full_path \o MetadataSuffix
  IN  IF ~os_path_exists(fsys, full_path) THEN NoRead
      ELSE
        Bind(Lookup(fsys, full_path), LAMBDA r :
        Bind(os_path_isdir(fsys, full_path), LAMBDA is_directory :
        Bind(Lookup(fsys, metadata_path), LAMBDA sidecar :
        Bind(~is_markdown /\ ~is_directory /\ os_path_exists(fsys, metadata_path)
               /\ IsFileKey(fsys, sidecar.key), LAMBDA has_sidecar :
        Bind(default_metadata(id, IF is_markdown THEN RemoveMd(name) ELSE name,
                              IF is_directory THEN "folder" ELSE "file",
                              created, modified), LAMBDA defaults :
        Bind(IF (is_markdown /\ ~is_directory) \/ has_sidecar
               THEN overlay(defaults, fsys[IF is_markdown /\ ~is_directory
                                             THEN r.key ELSE sidecar.key].text)
               ELSE [metadata |-> defaults, content |-> NoContent, ok |-> TRUE], LAMBDA ov :
        Bind(task_status(ov.metadata), LAMBDA ts :
          LET metadata == ov.metadata
              content == IF is_markdown /\ ~is_directory THEN ov.content ELSE NoContent
          IN  [found |-> TRUE,
               raised |-> ts.raised,
               touched |-> (IF (is_markdown /\ ~is_directory) \/ is_directory
                              THEN {r.key} ELSE {})
                           \cup (IF has_sidecar THEN {sidecar.key} ELSE {}),
               node |-> [path |-> path,
                         name |-> name,
                         isDirectory |-> is_directory,
                         isMarkdown |-> is_markdown,
                         metadata |-> metadata,
                         content |-> content,
                         parent |-> IF path # <<>> /\ Slash \in Range(path)
                                      THEN os_path_dirname(path) ELSE NoParent,
                         children |-> IF is_directory
                                        THEN {os_path_join(path, item) :
                                                item \in ListDir(fsys, r.key)}
                                        ELSE {},
                         softLinks |-> IF "links" \in DOMAIN metadata
                                         THEN metadata["links"] ELSE <<>>,
                         hasTask |-> "task" \in DOMAIN metadata,
                         taskStatus |-> ts.status]])))))))

\* the for loop of add_and_commit (lines 123-126): relative_to, then git add
RECURSIVE add_files(_, _, _, _, _)
add_files(fsys, idx, repo_path, files, env) ==
  IF files = <<>> THEN [ok |-> TRUE, staged |-> idx]
  ELSE LET rel == relative_to(Head(files), repo_path)
           a == git_add(fsys, idx, Lookup(fsys, repo_path).key, {rel.rel}, env)
       IN  IF ~rel.ok THEN [ok |-> FALSE, staged |-> idx]
           ELSE IF ~a.ok THEN [ok |-> FALSE, staged |-> a.staged]
           ELSE add_files(fsys, a.staged, repo_path, Tail(files), env)

\* this variant lets the ValueError of relative_to escape
add_and_commit_raising(fsys, idx, history, repo_path, files, message, env) ==
  Bind(add_files(fsys, idx, repo_path, files, env), LAMBDA a :
    IF ~a.ok
      THEN [staged |-> a.staged, commits |-> history, failed |-> TRUE,
            raised |-> \E i \in DOMAIN files : ~relative_to(files[i], repo_path).ok]
      ELSE Bind(git_commit(a.staged, history, message, env), LAMBDA c :
             [staged |-> c.staged, commits |-> c.commits, failed |-> ~c.ok,
              raised |-> FALSE]))

\* GitService.add_and_commit: every exception is caught (lines 130-136)
add_and_commit(fsys, idx, history, repo_path, files, message, env) ==
  Bind(add_files(fsys, idx, repo_path, files, env), LAMBDA a :
    IF ~a.ok
      THEN [staged |-> a.staged, commits |-> history, failed |-> TRUE, raised |-> FALSE]
      ELSE Bind(git_commit(a.staged, history, message, env), LAMBDA c :
             [staged |-> c.staged, commits |-> c.commits, failed |-> ~c.ok,
              raised |-> FALSE]))

\* the for loop of remove_and_commit (lines 146-148): relative_to, then git rm
RECURSIVE rm_files(_, _, _, _, _)
rm_files(idx, history, repo_path, files, env) ==
  IF files = <<>> THEN [ok |-> TRUE, staged |-> idx]
  ELSE LET rel == relative_to(Head(files), repo_path)
           a == git_rm(idx, history, rel.rel, env)
       IN  IF ~rel.ok THEN [ok |-> FALSE, staged |-> idx]
           ELSE IF ~a.ok THEN [ok |-> FALSE, staged |-> a.staged]
           ELSE rm_files(a.staged, history, repo_path, Tail(files), env)

\* GitService.remove_and_commit: every exception is caught (lines 152-157)
remove_and_commit(idx, history, repo_path, files, message, env) ==
  Bind(rm_files(idx, history, repo_path, files, env), LAMBDA a :
    IF ~a.ok
      THEN [staged |-> a.staged, commits |-> history, failed |-> TRUE, raised |-> FALSE]
      ELSE Bind(git_commit(a.staged, history, message, env), LAMBDA c :
             [staged |-> c.staged, commits |-> c.commits, failed |-> ~c.ok,
              raised |-> FALSE]))

\* outcome of an operation that stopped before its commit
Stopped(result, fsys, idx, history, touched) ==
  [result |-> result, fs |-> fsys, staged |-> idx, commits |-> history, node |-> NoNode,
   nodes |-> {}, touched |-> touched, written |-> {}, removed |-> {}, recorded |-> {},
   committing |-> FALSE, gitFailed |-> FALSE]

\* outcome of an operation that made its filesystem change, called the commit
\* c and ended with the read rd (a found = FALSE read is the None result)
Finished(fsys, c, rd, touched, written, removed, recorded) ==
  [result |-> IF c.raised THEN "VersioningError"
              ELSE IF rd.found /\ rd.raised THEN "error" ELSE "ok",
   fs |-> fsys, staged |-> c.staged, commits |-> c.commits,
   node |-> IF c.raised \/ ~rd.found \/ rd.raised THEN NoNode ELSE rd.node,
   nodes |-> {},
   touched |-> touched \cup written \cup removed \cup (IF c.raised THEN {} ELSE rd.touched),
   written |-> written, removed |-> removed, recorded |-> recorded,
   committing |-> TRUE, gitFailed |-> c.failed]

\* NodeService.create_node.  id1, id2: the ids generate_id() returns in
\* create_node and in the final read_node; created, modified: the two
\* datetime.now() of lines 155-156
create_node(fsys, idx, history, project_path, parent_path, name, node_type, initial_metadata, initial_content, id1, id2, created, modified, env) ==
  LET sanitized_name == sanitize_filename(name)
      filename == md_filename(sanitized_name)
      path == IF parent_path # <<>> THEN os_path_join(parent_path, filename) ELSE filename
      full_path == IF parent_path # <<>>
                     THEN os_path_join(os_path_join(project_path, parent_path), filename)
                     ELSE os_path_join(project_path, filename)
      metadata == MapUpdate(default_metadata(id1, RemoveMd(sanitized_name), node_type,
                                             created, modified), initial_metadata)
      content == IF initial_content = NoContent \/ initial_content = <<EmptyLine>>
                   THEN <<HeadingLine(metadata["title"]), EmptyLine, EmptyLine>>
                   ELSE initial_content
  IN  Bind(os_makedirs(fsys, os_path_dirname(full_path)), LAMBDA mk :
        IF ~mk.ok THEN Stopped("OSError", fsys, idx, history, {})
        ELSE
          Bind(WriteFile(mk.fs, full_path,
                         stringify_markdown_with_frontmatter(metadata, content)), LAMBDA w :
            IF ~w.ok THEN Stopped("OSError", mk.fs, idx, history,
                                  {k \in DOMAIN mk.fs : k \notin DOMAIN fsys})
            ELSE Finished(w.fs,
                          add_and_commit(w.fs, idx, history, project_path, <<path>>,
                                         "Created node", env),
                          read_node(w.fs, project_path, path, id2, modified, modified),
                          {}, {k \in DOMAIN w.fs : k \notin DOMAIN fsys} \cup {w.key},
                          {}, {path})))

\* this variant writes a given content into the file itself, structured or not
update_node_in_place(fsys, idx, history, project_path, path, metadata_updates, content, id1, id2, now, env) ==
  Bind(read_node(fsys, project_path, path, id1, now, now), LAMBDA rd1 :
    IF ~rd1.found THEN Stopped("NotFound", fsys, idx, history, {})
    ELSE IF rd1.raised THEN Stopped("error", fsys, idx, history, rd1.touched)
    ELSE
      LET node == rd1.node
          full_path == os_path_join(project_path, path)
          updated_metadata == [MapUpdate(node.metadata, metadata_updates)
                                 EXCEPT !["modified"] = now]
          updated_content == IF content # NoContent THEN content ELSE node.content
          in_place == updated_content # NoContent
          target == IF in_place THEN full_path ELSE full_path \o MetadataSuffix
          rel == IF in_place THEN path ELSE path \o MetadataSuffix
      IN  Bind(WriteFile(fsys, target,
                         stringify_markdown_with_frontmatter(
                           updated_metadata,
                           IF in_place THEN updated_content ELSE <<EmptyLine>>)), LAMBDA w :
            IF ~w.ok THEN Stopped("OSError", fsys, idx, history, rd1.touched)
            ELSE Finished(w.fs,
                          add_and_commit(w.fs, idx, history, project_path, <<rel>>,
                                         "Updated node", env),
                          read_node(w.fs, project_path, path, id2, now, now),
                          rd1.touched, {w.key}, {}, {rel})))

\* NodeService.update_node
update_node(fsys, idx, history, project_path, path, metadata_updates, content, id1, id2, now, env) ==
  Bind(read_node(fsys, project_path, path, id1, now, now), LAMBDA rd1 :
    IF ~rd1.found THEN Stopped("NotFound", fsys, idx, history, {})
    ELSE IF rd1.raised THEN Stopped("error", fsys, idx, history, rd1.touched)
    ELSE
      LET node == rd1.node
          full_path == os_path_join(project_path, path)
          updated_metadata == [MapUpdate(node.metadata, metadata_updates)
                                 EXCEPT !["modified"] = now]
          updated_content == IF content # NoContent THEN content ELSE node.content
          in_place == node.isMarkdown /\ updated_content # NoContent
          target == IF in_place THEN full_path ELSE full_path \o MetadataSuffix
          rel == IF in_place THEN path ELSE path \o MetadataSuffix
      IN  Bind(WriteFile(fsys, target,
                         stringify_markdown_with_frontmatter(
                           updated_metadata,
                           IF in_place THEN updated_content ELSE <<EmptyLine>>)), LAMBDA w :
            IF ~w.ok THEN Stopped("OSError", fsys, idx, history, rd1.touched)
            ELSE Finished(w.fs,
                          add_and_commit(w.fs, idx, history, project_path, <<rel>>,
                                         "Updated node", env),
                          read_node(w.fs, project_path, path, id2, now, now),
                          rd1.touched, {w.key}, {}, {rel})))

\* this variant leaves the sidecar of the deleted node in place
delete_node_keeping_sidecar(fsys, idx, history, project_path, path, env) ==
  LET full_path == os_path_join(project_path, path)
  IN  IF ~os_path_exists(fsys, full_path) THEN Stopped("NotFound", fsys, idx, history, {})
      ELSE
        Bind(FsRemove(fsys, Lookup(fsys, full_path).key), LAMBDA f1 :
          Finished(f1,
                   remove_and_commit(idx, history, project_path, <<path>>,
                                     "Deleted node", env),
                   NoRead, {}, {}, {k \in DOMAIN fsys : k \notin DOMAIN f1}, {path}))

\* this variant treats a missing path as already deleted
delete_node_ignoring_missing(fsys, idx, history, project_path, path, env) ==
  LET full_path == os_path_join(project_path, path)
      full_metadata_path == full_path \o MetadataSuffix
  IN  IF ~os_path_exists(fsys, full_path) THEN Stopped("ok", fsys, idx, history, {})
      ELSE
        Bind(FsRemove(FsRemove(fsys, Lookup(fsys, full_path).key),
                      Lookup(fsys, full_metadata_path).key), LAMBDA f2 :
          Finished(f2,
                   remove_and_commit(idx, history, project_path, <<path>>,
                                     "Deleted node", env),
                   NoRead, {}, {}, {k \in DOMAIN fsys : k \notin DOMAIN f2}, {path}))

\* NodeService.delete_node
delete_node(fsys, idx, history, project_path, path, env) ==
  LET full_path == os_path_join(project_path, path)
      full_metadata_path == full_path \o MetadataSuffix
  IN  IF ~os_path_exists(fsys, full_path) THEN Stopped("NotFound", fsys, idx, history, {})
      ELSE
        Bind(Lookup(fsys, full_path), LAMBDA r :
        Bind(Lookup(fsys, full_metadata_path), LAMBDA m :
        Bind(<<path>> \o (IF os_path_exists(fsys, full_metadata_path)
                            THEN <<path \o MetadataSuffix>> ELSE <<>>), LAMBDA files_to_remove :
        Bind(FsRemove(fsys, r.key), LAMBDA f1 :
        Bind(os_path_exists(f1, full_metadata_path), LAMBDA side_left :
          IF side_left /\ IsDirKey(f1, m.key)
            THEN Stopped("OSError", f1, idx, history, {r.key})
            ELSE Bind(IF side_left THEN FsRemove(f1, m.key) ELSE f1, LAMBDA f2 :
                   Finished(f2,
                            remove_and_commit(idx, history, project_path, files_to_remove,
                                              "Deleted node", env),
                            NoRead, {}, {},
                            {k \in DOMAIN fsys : k \notin DOMAIN f2},
                            Range(files_to_remove))))))))

\* NodeService.create_folder
create_folder(fsys, idx, history, project_path, parent_path, folder_name, id, now, env) ==
  LET sanitized_name == sanitize_filename(folder_name)
      folder_path == IF parent_path # <<>> THEN os_path_join(parent_path, sanitized_name)
                     ELSE sanitized_name
      full_path == IF parent_path # <<>>
                     THEN os_path_join(os_path_join(project_path, parent_path), sanitized_name)
                     ELSE os_path_join(project_path, sanitized_name)
      gitkeep_relative == os_path_join(folder_path, <<".gitkeep">>)
  IN  Bind(os_makedirs(fsys, full_path), LAMBDA mk :
        IF ~mk.ok THEN Stopped("OSError", fsys, idx, history, {})
        ELSE
          Bind(WriteFile(mk.fs, os_path_join(full_path, <<".gitkeep">>), <<EmptyLine>>),
               LAMBDA w :
            IF ~w.ok THEN Stopped("OSError", mk.fs, idx, history,
                                  {k \in DOMAIN mk.fs : k \notin DOMAIN fsys})
            ELSE Finished(w.fs,
                          add_and_commit(w.fs, idx, history, project_path,
                                         <<gitkeep_relative>>, "Created folder", env),
                          read_node(w.fs, project_path, folder_path, id, now, now),
                          {}, {k \in DOMAIN w.fs : k \notin DOMAIN fsys} \cup {w.key},
                          {}, {gitkeep_relative})))

\* str(None): what an f-string writes for a content that is None
NoneText == <<[t |-> "literal", s |-> <<"None">>]>>

\* the task dict save_as_template writes over an existing one (lines 443-451)
reset_task(task) ==
  [status |-> "todo",
   priority |-> IF "priority" \in DOMAIN task THEN task["priority"] ELSE "medium",
   assignee |-> "null", dueDate |-> "null", completedDate |-> "null",
   description |-> IF "description" \in DOMAIN task THEN task["description"] ELSE <<>>]

\* template_metadata of save_as_template (lines 432-451)
template_metadata(metadata, template_name, created, modified) ==
  LET kept == [k \in (DOMAIN metadata \ {"id", "position"}) \cup {"title", "created", "modified", "links"} |->
                 CASE k = "title" -> template_name
                   [] k = "created" -> created
                   [] k = "modified" -> modified
                   [] k = "links" -> <<>>
                   [] OTHER -> metadata[k]]
  IN  IF "task" \in DOMAIN kept THEN [kept EXCEPT !["task"] = reset_task(kept["task"])] ELSE kept

\* NodeService.save_as_template
save_as_template(fsys, idx, history, project_path, node_path, template_name, id1, id2, created, modified, env) ==
  Bind(read_node(fsys, project_path, node_path, id1, created, created), LAMBDA rd :
    IF ~rd.found THEN Stopped("NotFound", fsys, idx, history, {})
    ELSE IF rd.raised THEN Stopped("error", fsys, idx, history, rd.touched)
    ELSE IF rd.node.isDirectory THEN Stopped("InvalidArgument", fsys, idx, history, rd.touched)
    ELSE
      LET templates_dir == os_path_join(project_path, <<"templates">>)
          template_filename == md_filename(sanitize_filename(template_name))
          template_path == os_path_join(<<"templates">>, template_filename)
          full_template_path == os_path_join(templates_dir, template_filename)
          content == IF rd.node.content = NoContent THEN NoneText ELSE rd.node.content
      IN  Bind(os_makedirs(fsys, templates_dir), LAMBDA mk :
            IF ~mk.ok THEN Stopped("OSError", fsys, idx, history, rd.touched)
            ELSE
              Bind(WriteFile(mk.fs, full_template_path,
                             stringify_markdown_with_frontmatter(
                               template_metadata(rd.node.metadata, template_name,
                                                 created, modified),
                               content)), LAMBDA w :
                IF ~w.ok THEN Stopped("OSError", mk.fs, idx, history,
                                      rd.touched \cup {k \in DOMAIN mk.fs : k \notin DOMAIN fsys})
                ELSE Finished(w.fs,
                              add_and_commit(w.fs, idx, history, project_path,
                                             <<template_path>>, "Created template", env),
                              read_node(w.fs, project_path, template_path, id2,
                                        modified, modified),
                              rd.touched,
                              {k \in DOMAIN w.fs : k \notin DOMAIN fsys} \cup {w.key},
                              {}, {template_path}))))

\* an operation that calls another one and returns None: the callee's
\* outcome, less its node, with what the caller read before
ReturnsNone(r, touched) == [r EXCEPT !.node = NoNode, !.touched = @ \cup touched]

\* source_node['metadata'].get('links', [])
links_of(node) == IF "links" \in DOMAIN node.metadata THEN node.metadata["links"] ELSE <<>>

\* NodeService.create_soft_link.  id .. id + 3: what generate_id() returns
\* in the two reads and in the two reads of update_node
create_soft_link(fsys, idx, history, project_path, source_path, target_path, id, now, env) ==
  Bind(read_node(fsys, project_path, source_path, id, now, now), LAMBDA source_node :
  Bind(read_node(fsys, project_path, target_path, id + 1, now, now), LAMBDA target_node :
    IF source_node.found /\ source_node.raised
      THEN Stopped("error", fsys, idx, history, source_node.touched)
    ELSE IF target_node.found /\ target_node.raised
      THEN Stopped("error", fsys, idx, history, source_node.touched \cup target_node.touched)
    ELSE IF ~source_node.found \/ ~target_node.found
      THEN Stopped("NotFound", fsys, idx, history,
                   source_node.touched \cup target_node.touched)
    ELSE
      LET links == links_of(source_node.node)
          target_id == target_node.node.metadata["id"]
          touched == source_node.touched \cup target_node.touched
      IN  IF target_id \in Range(links)
            THEN Stopped("ok", fsys, idx, history, touched)
            ELSE ReturnsNone(update_node(fsys, idx, history, project_path, source_path,
                                         [links |-> Append(links, target_id)], NoContent,
                                         id + 2, id + 3, now, env),
                             touched)))

\* list.remove(x): the first occurrence of x is removed
RECURSIVE list_remove(_, _)
list_remove(list, x) ==
  IF list = <<>> THEN <<>>
  ELSE IF Head(list) = x THEN Tail(list)
  ELSE <<Head(list)>> \o list_remove(Tail(list), x)

\* NodeService.remove_soft_link
remove_soft_link(fsys, idx, history, project_path, source_path, target_id, id, now, env) ==
  Bind(read_node(fsys, project_path, source_path, id, now, now), LAMBDA source_node :
    IF ~source_node.found THEN Stopped("NotFound", fsys, idx, history, {})
    ELSE IF source_node.raised THEN Stopped("error", fsys, idx, history, source_node.touched)
    ELSE
      LET links == links_of(source_node.node)
      IN  IF target_id \notin Range(links)
            THEN Stopped("ok", fsys, idx, history, source_node.touched)
            ELSE ReturnsNone(update_node(fsys, idx, history, project_path, source_path,
                                         [links |-> list_remove(links, target_id)], NoContent,
                                         id + 1, id + 2, now, env),
                             source_node.touched))

\* NodeService.delete_template: the name is used as given
delete_template(fsys, idx, history, project_path, template_name, env) ==
  delete_node(fsys, idx, history, project_path,
              os_path_join(<<"templates">>, template_name \o Md), env)

\* str.replace(old, new) on a token string, old being one token
RECURSIVE str_replace(_, _, _)
str_replace(str, old, new) ==
  IF str = <<>> THEN <<>>
  ELSE (IF Head(str) = old THEN new ELSE <<Head(str)>>) \o str_replace(Tail(str), old, new)

\* content.replace('{title}', name).replace('{description}', description):
\* only the lines that carry literal text can hold a placeholder
replace_placeholders(content, name, description) ==
  [i \in DOMAIN content |->
     IF "s" \in DOMAIN content[i]
       THEN [content[i] EXCEPT !.s = str_replace(str_replace(@, "{title}", name),
                                                  "{description}", description)]
       ELSE content[i]]

\* NodeService.create_node_from_template.  id .. id + 2: the ids of the read
\* of the template, of the new node and of the final read
create_node_from_template(fsys, idx, history, project_path, parent_path, name, template_path, initial_metadata, id, created, modified, env) ==
  Bind(read_node(fsys, project_path, template_path, id, created, created), LAMBDA template :
    IF ~template.found THEN Stopped("NotFound", fsys, idx, history, {})
    ELSE IF template.raised \/ template.node.content = NoContent
      THEN Stopped("error", fsys, idx, history, template.touched)
    ELSE
      LET metadata == MapUpdate(MapUpdate(template.node.metadata,
                                          [id |-> id + 1, title |-> name,
                                           created |-> created, modified |-> modified]),
                                initial_metadata)
          content == replace_placeholders(
                       template.node.content, name,
                       IF "description" \in DOMAIN metadata THEN metadata["description"]
                       ELSE <<>>)
          filename == md_filename(sanitize_filename(name))
          parent == IF parent_path # <<>> THEN parent_path ELSE <<"nodes">>
          path == os_path_join(parent, filename)
          full_path == os_path_join(os_path_join(project_path, parent), filename)
      IN  Bind(os_makedirs(fsys, os_path_dirname(full_path)), LAMBDA mk :
            IF ~mk.ok THEN Stopped("OSError", fsys, idx, history, template.touched)
            ELSE
              Bind(WriteFile(mk.fs, full_path,
                             stringify_markdown_with_frontmatter(metadata, content)),
                   LAMBDA w :
                IF ~w.ok THEN Stopped("OSError", mk.fs, idx, history,
                                      template.touched
                                      \cup {k \in DOMAIN mk.fs : k \notin DOMAIN fsys})
                ELSE Finished(w.fs,
                              add_and_commit(w.fs, idx, history, project_path, <<path>>,
                                             "Created node from template", env),
                              read_node(w.fs, project_path, path, id + 2,
                                        modified, modified),
                              template.touched,
                              {k \in DOMAIN w.fs : k \notin DOMAIN fsys} \cup {w.key},
                              {}, {path}))))

\* tokens that begin with "."
DotTokens == {".", "..", ".git", ".gitignore", ".gitkeep", ".md", ".metadata", ".hidden"}

\* name.startswith('.')
starts_with_dot(name) == name # <<>> /\ Head(name) \in DotTokens

RECURSIVE CommonPrefixLen(_, _)
CommonPrefixLen(a, b) ==
  IF a = <<>> \/ b = <<>> \/ Head(a) # Head(b) THEN 0
  ELSE 1 + CommonPrefixLen(Tail(a), Tail(b))

\* os.path.relpath(key, base) for two resolved locations, '.' given as ''
\* (list_nodes lines 285-287)
rel_root_of(key, base) ==
  LET n == CommonPrefixLen(key, base)
  IN  JoinSegs([i \in 1..(Len(base) - n) |-> DotDot] \o SubSeq(key, n + 1, Len(key)))

\* the entries directly below a directory, by kind
dirs_of(fsys, root) == {name \in ListDir(fsys, root) : IsDirKey(fsys, Append(root, name))}

files_of(fsys, root) == {name \in ListDir(fsys, root) : IsFileKey(fsys, Append(root, name))}

\* the paths the loop body of list_nodes (lines 289-314) reads for one
\* directory root of the walk
paths_of_root(fsys, project_key, root, exclude_templates) ==
  LET rel_root == rel_root_of(root, project_key)
      path_of(name) == IF rel_root # <<>> THEN os_path_join(rel_root, name) ELSE name
  IN  IF exclude_templates /\ <<"templates">> \in Range(Segs(rel_root)) THEN {}
      ELSE {path_of(dir_name) :
              dir_name \in {d \in dirs_of(fsys, root) :
                              /\ ~starts_with_dot(d)
                              /\ ~(exclude_templates /\ rel_root = <<>>
                                     /\ d = <<"templates">>)}}
           \cup {file_path \in {path_of(file_name) :
                                  file_name \in {f \in files_of(fsys, root) :
                                                   ~starts_with_dot(f)}} :
                   ~EndsWith(file_path, MetadataSuffix)}

\* os.walk(start_path): every directory at or below the start; nothing when
\* the start is not a directory
walk_roots(fsys, start_path) ==
  IF ~os_path_isdir(fsys, start_path) THEN {}
  ELSE {k \in DOMAIN fsys : IsDirKey(fsys, k) /\ IsPrefix(Lookup(fsys, start_path).key, k)}

\* the elements of a set in the order the walk meets them
RECURSIVE SetToSeq(_)
SetToSeq(S) ==
  IF S = {} THEN <<>>
  ELSE LET x == CHOOSE y \in S : TRUE IN <<x>> \o SetToSeq(S \ {x})

\* NodeService.list_nodes.  directory = <<>> is None; the i-th read_node of the
\* walk gets the id id + i - 1
list_nodes(fsys, idx, history, project_path, directory, exclude_templates, id, now) ==
  LET start_path == IF directory # <<>> THEN os_path_join(project_path, directory)
                    ELSE project_path
  IN  Bind(walk_roots(fsys, start_path), LAMBDA roots :
      Bind(SetToSeq(UNION {paths_of_root(fsys, PathResolve(project_path), root,
                                         exclude_templates) : root \in roots}),
           LAMBDA paths :
      Bind([i \in DOMAIN paths |->
              read_node(fsys, project_path, paths[i], id + i - 1, now, now)],
           LAMBDA reads :
        IF \E i \in DOMAIN reads : reads[i].found /\ reads[i].raised
          THEN Stopped("error", fsys, idx, history, roots)
          ELSE [Stopped("ok", fsys, idx, history,
                        roots \cup UNION {reads[i].touched : i \in DOMAIN reads})
                  EXCEPT !.nodes = {reads[i].node : i \in {j \in DOMAIN reads : reads[j].found}}])))

\* the bundled templates/Empty.md after its two placeholder timestamps were
\* replaced by now (lines 366-369).  The id '' of a template is written 0:
\* generate_id() starts at 1
bundled_template_content(now) ==
  stringify_markdown_with_frontmatter(
    default_metadata(0, <<"Empty">>, "file", now, now),
    <<HeadingLine(<<"{title}">>), EmptyLine, TxtLine>>)

\* the template create_empty_template synthesizes when the bundled file is
\* missing (lines 379-398)
fallback_template_content(created, modified) ==
  stringify_markdown_with_frontmatter(
    MapUpdate(default_metadata(0, <<"Empty">>, "file", created, modified),
              [description |-> <<>>, tags |-> <<>>, links |-> <<>>,
               task |-> [status |-> "todo", priority |-> "medium", assignee |-> "null",
                         dueDate |-> "null", completedDate |-> "null",
                         description |-> <<>>]]),
    <<HeadingLine(<<"{title}">>), EmptyLine, [t |-> "literal", s |-> <<"{description}">>]>>)

\* the two branches that write the destination (lines 360-404); bundled:
\* whether the source template exists
write_empty_template(fsys, before, idx, history, project_path, bundled, created, modified, env) ==
  Bind(WriteFile(fsys, os_path_join(os_path_join(project_path, <<"templates">>),
                                    <<"Empty", ".md">>),
                 IF bundled THEN bundled_template_content(created)
                 ELSE fallback_template_content(created, modified)), LAMBDA w :
    IF ~w.ok THEN Stopped("OSError", fsys, idx, history,
                          {k \in DOMAIN fsys : k \notin DOMAIN before})
    ELSE Finished(w.fs,
                  add_and_commit(w.fs, idx, history, project_path,
                                 << <<"templates", Slash, "Empty", ".md">> >>,
                                 "Created Empty template", env),
                  NoRead, {},
                  {k \in DOMAIN w.fs : k \notin DOMAIN before} \cup {w.key},
                  {}, { <<"templates", Slash, "Empty", ".md">> }))

\* create_empty_template without the test of line 359: the destination is
\* written whether it exists or not
create_empty_template_overwriting(fsys, idx, history, project_path, bundled, created, modified, env) ==
  Bind(os_makedirs(fsys, os_path_join(project_path, <<"templates">>)), LAMBDA mk :
    IF ~mk.ok THEN Stopped("OSError", fsys, idx, history, {})
    ELSE write_empty_template(mk.fs, fsys, idx, history, project_path, bundled,
                              created, modified, env))

\* NodeService.create_empty_template
create_empty_template(fsys, idx, history, project_path, bundled, created, modified, env) ==
  Bind(os_makedirs(fsys, os_path_join(project_path, <<"templates">>)), LAMBDA mk :
    IF ~mk.ok THEN Stopped("OSError", fsys, idx, history, {})
    ELSE IF os_path_exists(mk.fs, os_path_join(os_path_join(project_path, <<"templates">>),
                                               <<"Empty", ".md">>))
      THEN [Stopped("ok", mk.fs, idx, history, {})
              EXCEPT !.written = {k \in DOMAIN mk.fs : k \notin DOMAIN fsys}]
    ELSE write_empty_template(mk.fs, fsys, idx, history, project_path, bundled,
                              created, modified, env))

\* a YAML scalar that is not a string (title: 42), kept as one token
NotAString == <<"42">>

\* str.lower() on a token string
LowerToken(tok) == CASE tok \in {"Foo", "FOO"} -> "foo" [] tok = "Empty" -> "empty" [] OTHER -> tok

lower(str) == [i \in DOMAIN str |-> LowerToken(str[i])]

\* query_lower in node['content'].lower(): only the lines that carry literal
\* text can hold the query
content_match(query_lower, content) ==
  \E i \in DOMAIN content :
    "s" \in DOMAIN content[i] /\ Infix(query_lower, lower(content[i].s))

\* the body of the for loop of search_nodes (lines 326-342) for one node:
\* whether the node is kept, and whether the title has no lower()
search_step(node, query, node_type, has_task) ==
  LET title == IF "title" \in DOMAIN node.metadata THEN node.metadata["title"] ELSE <<>>
      type_ok == ~(node_type # "" /\ ~("type" \in DOMAIN node.metadata
                                        /\ node.metadata["type"] = node_type))
      task_ok == ~(has_task # "None" /\ node.hasTask # (has_task = "True"))
  IN  [raised |-> type_ok /\ task_ok /\ query # <<>> /\ title = NotAString,
       kept |-> /\ type_ok
                /\ task_ok
                /\ query # <<>> =>
                     \/ Infix(lower(query), lower(title))
                     \/ (node.content # NoContent /\ content_match(lower(query), node.content))]

\* NodeService.search_nodes.  node_type = "" and has_task = "None": not given
search_nodes(fsys, idx, history, project_path, query, node_type, has_task, id, now) ==
  Bind(list_nodes(fsys, idx, history, project_path, <<>>, TRUE, id, now), LAMBDA all_nodes :
    IF all_nodes.result # "ok" THEN all_nodes
    ELSE IF \E n \in all_nodes.nodes : search_step(n, query, node_type, has_task).raised
      THEN [all_nodes EXCEPT !.result = "error", !.nodes = {}]
    ELSE [all_nodes EXCEPT
            !.nodes = {n \in @ : search_step(n, query, node_type, has_task).kept}])

\* this variant merges the updates into the metadata that is on disk when it
\* writes, as a write under a per-node lock would
update_write_merging(fsys, project_path, path, node, metadata_updates, content, now) ==
  LET full_path == os_path_join(project_path, path)
      current == read_node(fsys, project_path, path, node.metadata["id"], now, now)
      updated_metadata == [MapUpdate(IF current.found THEN current.node.metadata
                                     ELSE node.metadata, metadata_updates)
                             EXCEPT !["modified"] = now]
  IN  Bind(WriteFile(fsys, full_path,
                     stringify_markdown_with_frontmatter(updated_metadata, node.content)),
           LAMBDA w :
        [ok |-> w.ok, fs |-> IF w.ok THEN w.fs ELSE fsys, files |-> <<path>>])

\* lines 185-208 of update_node, run on the node the flow read earlier
update_write(fsys, project_path, path, node, metadata_updates, content, now) ==
  LET full_path == os_path_join(project_path, path)
      updated_metadata == [MapUpdate(node.metadata, metadata_updates)
                             EXCEPT !["modified"] = now]
      updated_content == IF content # NoContent THEN content ELSE node.content
      in_place == node.isMarkdown /\ updated_content # NoContent
      target == IF in_place THEN full_path ELSE full_path \o MetadataSuffix
      rel == IF in_place THEN path ELSE path \o MetadataSuffix
  IN  Bind(WriteFile(fsys, target,
                     stringify_markdown_with_frontmatter(
                       updated_metadata,
                       IF in_place THEN updated_content ELSE <<EmptyLine>>)), LAMBDA w :
        [ok |-> w.ok, fs |-> IF w.ok THEN w.fs ELSE fsys, files |-> <<rel>>])

(***************************************************************************)
(* Specification of the node store: one initialised project, the requests  *)
(* of the editor / graph / template endpoints arriving one after another   *)
(***************************************************************************)
NodeProject == [id |-> ProjectId, state |-> "new",
                git_config |-> GitConfig("local", <<Slash, "srv", Slash, ProjectId>>)]

NodeSettings == [GIT_PROJECTS_ROOT |-> <<".", Slash, "git-repos">>]

\* NodeService.__init__: project_path = GitService(project).repo_path
project_path == determine_repo_path(project, settings)

ProjectRoot == PathResolve(project_path)

InsideRoot(key) == IsPrefix(ProjectRoot, key)

ParentArgs == { <<>>, <<"nodes">>, <<"..", Slash, "..", Slash, "etc">> }

NameArgs == { <<"Foo">>, <<"Foo", ".md">>, <<" ">> }

PathArgs == { <<"nodes">>, <<"Foo", ".md">>, <<"nodes", Slash, "Foo", ".md">>,
              <<"templates", Slash, "Empty", ".md">>,
              <<"..", Slash, "..", Slash, "etc", Slash, "passwd">> }

MetadataArgs == {EmptyMap, [type |-> "note"], [title |-> NotAString], [task |-> NullTask]}

ContentArgs == {NoContent, <<EmptyLine>>, <<TxtLine>>}

CreateRequest(parent, name, type, metadata, content) ==
  [parent |-> parent, name |-> name, type |-> type, metadata |-> metadata, content |-> content]

\* the create requests of the model: one request varied one argument at a time
CreateRequests ==
  {CreateRequest(pa, <<"Foo">>, "task", EmptyMap, <<TxtLine>>) : pa \in ParentArgs}
  \cup {CreateRequest(<<>>, n, "task", EmptyMap, <<TxtLine>>) : n \in NameArgs}
  \cup {CreateRequest(<<>>, <<"Foo">>, "task", m, <<TxtLine>>) : m \in MetadataArgs}
  \cup {CreateRequest(<<>>, <<"Foo">>, "task", EmptyMap, c) : c \in ContentArgs}

FolderRequests ==
  {[parent |-> pa, name |-> <<"Foo">>] : pa \in ParentArgs}
  \cup {[parent |-> <<>>, name |-> n] : n \in {<<"nodes">>, DotDot}}
  \cup {[parent |-> <<"nodes">>, name |-> <<"templates">>]}

\* the update requests of the model: a metadata update of every path, a
\* content update of a directory, a structured file and a template, and two
\* updates of a non-structured file
UpdateRequests ==
  {[path |-> pt, metadata |-> [type |-> "note"], content |-> NoContent] : pt \in PathArgs}
  \cup {[path |-> pt, metadata |-> EmptyMap, content |-> <<TxtLine>>] :
          pt \in { <<"nodes">>, <<"Foo", ".md">>, <<"templates", Slash, "Empty", ".md">> }}
  \cup {[path |-> <<".gitignore">>, metadata |-> m, content |-> <<TxtLine>>] :
          m \in {[type |-> "note"], [description |-> <<"d">>]}}

\* the saveAsTemplate requests: a directory, a structured file, a file
\* without content, a path that does not exist, a name that already carries
\* the structured suffix
SaveRequests ==
  {[path |-> pt, name |-> <<"T">>] :
     pt \in { <<"nodes">>, <<"templates", Slash, "Empty", ".md">>, <<".gitignore">>,
              <<"Foo", ".md">> }}
  \cup {[path |-> <<"templates", Slash, "Empty", ".md">>, name |-> <<"T", ".md">>]}

\* createSoftLink requests: existing nodes of each kind, a missing source,
\* a missing target
LinkRequests ==
  { [source |-> <<"templates", Slash, "Empty", ".md">>, target |-> <<"nodes">>],
    [source |-> <<"nodes">>, target |-> <<"templates", Slash, "Empty", ".md">>],
    [source |-> <<"Foo", ".md">>, target |-> <<"templates", Slash, "Empty", ".md">>],
    [source |-> <<"Foo", ".md">>, target |-> <<"nodes">>],
    [source |-> <<"templates", Slash, "Empty", ".md">>, target |-> <<"Foo", ".md">>],
    [source |-> <<"Foo", ".md">>, target |-> <<"Missing", ".md">>] }

UnlinkRequests ==
  {[source |-> sp, id |-> i] :
     sp \in { <<"templates", Slash, "Empty", ".md">>, <<"Foo", ".md">> }, i \in {1, 2, 99}}

TemplateNames == { <<"Empty">>, <<"T">>, <<"T", ".md">>, <<"..", Slash, "Foo">> }

\* list requests: the whole tree with and without the templates, a subtree
ListRequests ==
  { [directory |-> <<>>, exclude_templates |-> TRUE],
    [directory |-> <<>>, exclude_templates |-> FALSE],
    [directory |-> <<"nodes">>, exclude_templates |-> TRUE] }

\* search requests: no criterion, a query in another case than the title, a
\* type, a task flag
SearchRequests ==
  { [query |-> <<>>, type |-> "", has_task |-> "None"],
    [query |-> <<"FOO">>, type |-> "", has_task |-> "None"],
    [query |-> <<>>, type |-> "task", has_task |-> "None"],
    [query |-> <<"foo">>, type |-> "", has_task |-> "False"] }

\* createFromTemplate requests: the seeded template, a missing template, a
\* directory given as the template, an override, a node named as the template
FromTemplateRequests ==
  {[parent |-> <<>>, name |-> <<"Foo">>, template |-> tp, metadata |-> EmptyMap] :
     tp \in { <<"templates", Slash, "Empty", ".md">>, <<"templates", Slash, "Missing", ".md">>,
              <<"nodes">> }}
  \cup {[parent |-> <<"nodes">>, name |-> <<"Foo">>,
          template |-> <<"templates", Slash, "Empty", ".md">>,
          metadata |-> [description |-> <<"d">>]]}
  \cup {[parent |-> <<"templates">>, name |-> <<"Empty">>,
          template |-> <<"templates", Slash, "Empty", ".md">>, metadata |-> EmptyMap]}

\* the project is initialised and its git works: the node store hands
\* project-relative paths to add_and_commit / remove_and_commit, whose
\* relative_to raises before any git subprocess runs, so that no other git
\* environment can show in the node store
Init ==
  \E r \in {initialize_project(BaseFs, {}, <<>>, NodeProject, NodeSettings, "ok")} :
    /\ fs = r.fs
    /\ staged = r.staged
    /\ commits = r.commits
    /\ project = [NodeProject EXCEPT !.state = "ready", !.git_config = r.config]
    /\ settings = NodeSettings
    /\ gitEnv = "ok"
    /\ clock = 0
    /\ nextId = 1
    /\ last = NoOp
    /\ codec = NoCodec
    /\ flows = NoFlows

\* what every request records about itself
Outcome(op, args, r) ==
  [op |-> op, args |-> args, result |-> r.result, node |-> r.node, nodes |-> r.nodes,
   touched |-> r.touched, written |-> r.written, removed |-> r.removed,
   recorded |-> r.recorded, committing |-> r.committing, gitFailed |-> r.gitFailed,
   commitsBefore |-> Len(commits), wasRepo |-> GitIsRepo(fs, ProjectRoot),
   before |-> fs]

Apply(op, args, r, ids, now) ==
  /\ fs' = r.fs
  /\ staged' = r.staged
  /\ commits' = r.commits
  /\ nextId' = nextId + ids
  /\ clock' = now
  /\ last' = Outcome(op, args, r)
  /\ UNCHANGED <<project, settings, gitEnv, codec, flows>>

ReadNode(path) ==
  /\ clock < MaxClock
  /\ \E rd \in {read_node(fs, project_path, path, nextId, clock + 1, clock + 1)} :
       Apply("read", [path |-> path],
             [Stopped(IF ~rd.found THEN "none" ELSE IF rd.raised THEN "error" ELSE "ok",
                      fs, staged, commits, rd.touched)
                EXCEPT !.node = IF rd.found /\ ~rd.raised THEN rd.node ELSE NoNode],
             1, clock + 1)

\* d: whether the clock advances between the two datetime.now() calls
CreateNode(req, d) ==
  /\ clock < MaxClock
  /\ Apply("create", req,
           create_node(fs, staged, commits, project_path, req.parent, req.name, req.type,
                       req.metadata, req.content, nextId, nextId + 1,
                       clock + 1, clock + 1 + d, gitEnv),
           2, clock + 1)

UpdateNode(req) ==
  /\ clock < MaxClock
  /\ Apply("update", req,
           update_node(fs, staged, commits, project_path, req.path, req.metadata, req.content,
                       nextId, nextId + 1, clock + 1, gitEnv),
           2, clock + 1)

DeleteNode(path) ==
  /\ clock < MaxClock
  /\ Apply("delete", [path |-> path],
           delete_node(fs, staged, commits, project_path, path, gitEnv), 0, clock + 1)

CreateFolder(req) ==
  /\ clock < MaxClock
  /\ Apply("createFolder", req,
           create_folder(fs, staged, commits, project_path, req.parent, req.name,
                         nextId, clock + 1, gitEnv),
           1, clock + 1)

\* d: whether the clock advances between the two datetime.now() calls
SaveAsTemplate(req, d) ==
  /\ clock < MaxClock
  /\ Apply("saveAsTemplate", req,
           save_as_template(fs, staged, commits, project_path, req.path, req.name,
                            nextId, nextId + 1, clock + 1, clock + 1 + d, gitEnv),
           2, clock + 1)

CreateSoftLink(req) ==
  /\ clock < MaxClock
  /\ Apply("createSoftLink", req,
           create_soft_link(fs, staged, commits, project_path, req.source, req.target,
                            nextId, clock + 1, gitEnv),
           4, clock + 1)

RemoveSoftLink(req) ==
  /\ clock < MaxClock
  /\ Apply("removeSoftLink", req,
           remove_soft_link(fs, staged, commits, project_path, req.source, req.id,
                            nextId, clock + 1, gitEnv),
           3, clock + 1)

DeleteTemplate(name) ==
  /\ clock < MaxClock
  /\ Apply("deleteTemplate", [name |-> name],
           delete_template(fs, staged, commits, project_path, name, gitEnv), 0, clock + 1)

\* d: whether the clock advances between the two datetime.now() calls
CreateFromTemplate(req, d) ==
  /\ clock < MaxClock
  /\ Apply("createFromTemplate", req,
           create_node_from_template(fs, staged, commits, project_path, req.parent, req.name,
                                     req.template, req.metadata, nextId,
                                     clock + 1, clock + 1 + d, gitEnv),
           3, clock + 1)

\* bundled: whether the source template is installed next to the service;
\* d: whether the clock advances between the two datetime.now() calls
EnsureDefaultTemplate(bundled, d) ==
  /\ clock < MaxClock
  /\ Apply("ensureDefaultTemplate", [bundled |-> bundled],
           create_empty_template(fs, staged, commits, project_path, bundled,
                                 clock + 1, clock + 1 + d, gitEnv),
           0, clock + 1)

ListNodes(req) ==
  /\ clock < MaxClock
  /\ \E r \in {list_nodes(fs, staged, commits, project_path, req.directory,
                          req.exclude_templates, nextId, clock + 1)} :
       Apply("list", req, r, Cardinality(r.nodes), clock + 1)

\* ids: one generate_id() for every node the listing read
SearchNodes(req) ==
  /\ clock < MaxClock
  /\ \E listed \in {list_nodes(fs, staged, commits, project_path, <<>>, TRUE, nextId,
                               clock + 1)} :
       Apply("search", req,
             search_nodes(fs, staged, commits, project_path, req.query, req.type,
                          req.has_task, nextId, clock + 1),
             Cardinality(listed.nodes), clock + 1)

\* the clock may advance between the two datetime.now() calls of a request:
\* both cases for the first request of each kind, no advance for the others
Drifts(first) == IF first THEN {0, 1} ELSE {0}

Next ==
  \/ \E path \in PathArgs : ReadNode(path)
  \/ \E req \in CreateRequests :
       \E d \in Drifts(req = CreateRequest(<<>>, <<"Foo">>, "task", EmptyMap, <<TxtLine>>)) :
         CreateNode(req, d)
  \/ \E req \in UpdateRequests : UpdateNode(req)
  \/ \E path \in PathArgs : DeleteNode(path)
  \/ \E req \in FolderRequests : CreateFolder(req)
  \/ \E req \in SaveRequests :
       \E d \in Drifts(req = [path |-> <<"templates", Slash, "Empty", ".md">>, name |-> <<"T">>]) :
         SaveAsTemplate(req, d)
  \/ \E req \in LinkRequests : CreateSoftLink(req)
  \/ \E req \in UnlinkRequests : RemoveSoftLink(req)
  \/ \E name \in TemplateNames : DeleteTemplate(name)
  \/ \E req \in ListRequests : ListNodes(req)
  \/ \E req \in SearchRequests : SearchNodes(req)
  \/ \E bundled \in BOOLEAN : \E d \in Drifts(~bundled) : EnsureDefaultTemplate(bundled, d)
  \/ \E req \in FromTemplateRequests :
       \E d \in Drifts(req.parent = <<>> /\ req.template = <<"templates", Slash, "Empty", ".md">>) :
         CreateFromTemplate(req, d)

Spec == Init /\ [][Next]_vars

(***************************************************************************)
(* Specification of concurrent requests: two request flows of one project  *)
(* that interleave where the code awaits file I/O                          *)
(***************************************************************************)
FlowIds == {1, 2}

\* the node the concurrent requests address
SharedPath == <<"Foo", ".md">>

IdleFlow ==
  [pc |-> "idle", op |-> "none", path |-> <<>>, updates |-> EmptyMap, target |-> <<>>,
   base |-> NoNode, node |-> NoNode, files |-> <<>>, result |-> "none",
   readAt |-> 0, wroteAt |-> 0]

FlowRequest(op, updates, target) ==
  [IdleFlow EXCEPT !.pc = "start", !.op = op, !.path = SharedPath, !.updates = updates,
                   !.target = target]

\* two updates of different keys, a delete, a soft link and a create, all of
\* the same path
FlowRequests ==
  { FlowRequest("update", [type |-> "note"], <<>>),
    FlowRequest("update", [description |-> <<"d">>], <<>>),
    FlowRequest("delete", EmptyMap, <<>>),
    FlowRequest("link", EmptyMap, <<"nodes">>),
    FlowRequest("create", EmptyMap, <<>>) }

\* the project after create("", "Foo", "task"): the shared node exists
InitFlows ==
  /\ project = [NodeProject EXCEPT !.state = "ready"]
  /\ settings = NodeSettings
  /\ gitEnv = "ok"
  /\ \E r0 \in {initialize_project(BaseFs, {}, <<>>, NodeProject, NodeSettings, "ok")} :
     \E r \in {create_node(r0.fs, r0.staged, r0.commits, project_path, <<>>, <<"Foo">>,
                           "task", EmptyMap, <<TxtLine>>, 1, 2, 1, 1, "ok")} :
       /\ fs = r.fs
       /\ staged = r.staged
       /\ commits = r.commits
  /\ clock = 1
  /\ nextId = 3
  /\ last = NoOp
  /\ codec = NoCodec
  /\ flows = [f \in FlowIds |-> IdleFlow]

\* one step of flow f: its new record, the tree, the ids it generated
FlowStep(f, flow, fsys, ids) ==
  /\ flows' = [flows EXCEPT ![f] = flow]
  /\ fs' = fsys
  /\ nextId' = nextId + ids
  /\ clock' = clock + 1
  /\ UNCHANGED <<project, settings, gitEnv, last, codec>>

\* a request arrives
Begin(f, req) ==
  /\ flows[f].pc = "idle"
  /\ flows' = [flows EXCEPT ![f] = req]
  /\ UNCHANGED <<fs, staged, commits, project, settings, gitEnv, clock, nextId, last, codec>>

\* update_node line 179: node = await self.read_node(path)
UpdateRead(f) ==
  /\ \/ flows[f].op = "update" /\ flows[f].pc = "start"
     \/ flows[f].op = "link" /\ flows[f].pc = "update"
  /\ \E rd \in {read_node(fs, project_path, flows[f].path, nextId, clock + 1, clock + 1)} :
       FlowStep(f, IF ~rd.found THEN [flows[f] EXCEPT !.pc = "done", !.result = "NotFound"]
                   ELSE IF rd.raised THEN [flows[f] EXCEPT !.pc = "done", !.result = "error"]
                   ELSE [flows[f] EXCEPT !.pc = "read", !.base = rd.node,
                                         !.readAt = clock + 1],
                fs, 1)
  /\ UNCHANGED <<staged, commits>>

\* update_node lines 185-208: the write of the merged metadata
UpdateWrite(f) ==
  /\ flows[f].pc = "read"
  /\ \E w \in {update_write(fs, project_path, flows[f].path, flows[f].base,
                            flows[f].updates, NoContent, clock + 1)} :
       FlowStep(f, IF ~w.ok THEN [flows[f] EXCEPT !.pc = "done", !.result = "OSError"]
                   ELSE [flows[f] EXCEPT !.pc = "written", !.files = w.files,
                                         !.wroteAt = clock + 1],
                w.fs, 0)
  /\ UNCHANGED <<staged, commits>>

\* create_node lines 146-168: the write of the new file
CreateWrite(f) ==
  /\ flows[f].op = "create" /\ flows[f].pc = "start"
  /\ \E r \in {create_node(fs, staged, commits, project_path, <<>>, <<"Foo">>, "task",
                           EmptyMap, <<TxtLine>>, nextId, nextId, clock + 1, clock + 1,
                           gitEnv)} :
       FlowStep(f, IF r.result = "OSError"
                     THEN [flows[f] EXCEPT !.pc = "done", !.result = "OSError"]
                     ELSE [flows[f] EXCEPT !.pc = "written", !.files = <<SharedPath>>,
                                           !.wroteAt = clock + 1],
                r.fs, 1)
  /\ UNCHANGED <<staged, commits>>

\* delete_node lines 219-240: the removal, which awaits nothing
DeleteRemove(f) ==
  /\ flows[f].op = "delete" /\ flows[f].pc = "start"
  /\ \E r \in {delete_node(fs, staged, commits, project_path, flows[f].path, gitEnv)} :
       FlowStep(f, IF r.result = "NotFound"
                     THEN [flows[f] EXCEPT !.pc = "done", !.result = "NotFound"]
                     ELSE [flows[f] EXCEPT !.pc = "written", !.files = <<flows[f].path>>,
                                           !.wroteAt = clock + 1],
                r.fs, 0)
  /\ UNCHANGED <<staged, commits>>

\* create_soft_link line 247: source_node = await self.read_node(source_path)
LinkReadSource(f) ==
  /\ flows[f].op = "link" /\ flows[f].pc = "start"
  /\ \E rd \in {read_node(fs, project_path, flows[f].path, nextId, clock + 1, clock + 1)} :
       FlowStep(f, [flows[f] EXCEPT !.pc = "source",
                                    !.base = IF rd.found /\ ~rd.raised THEN rd.node ELSE NoNode,
                                    !.result = IF rd.found /\ rd.raised THEN "error" ELSE "none"],
                fs, 1)
  /\ UNCHANGED <<staged, commits>>

\* create_soft_link lines 248-259: the read of the target and the new links
LinkReadTarget(f) ==
  /\ flows[f].op = "link" /\ flows[f].pc = "source"
  /\ \E rd \in {read_node(fs, project_path, flows[f].target, nextId, clock + 1, clock + 1)} :
       FlowStep(f, IF flows[f].result = "error" \/ (rd.found /\ rd.raised)
                     THEN [flows[f] EXCEPT !.pc = "done", !.result = "error"]
                   ELSE IF flows[f].base = NoNode \/ ~rd.found
                     THEN [flows[f] EXCEPT !.pc = "done", !.result = "NotFound"]
                   ELSE IF rd.node.metadata["id"] \in Range(links_of(flows[f].base))
                     THEN [flows[f] EXCEPT !.pc = "done", !.result = "ok"]
                   ELSE [flows[f] EXCEPT
                           !.pc = "update",
                           !.updates = [links |-> Append(links_of(flows[f].base),
                                                         rd.node.metadata["id"])]],
                fs, 1)
  /\ UNCHANGED <<staged, commits>>

\* the commit that follows the write or the removal
FlowCommit(f) ==
  /\ flows[f].pc = "written"
  /\ \E c \in {IF flows[f].op = "delete"
                 THEN remove_and_commit(staged, commits, project_path, flows[f].files,
                                        "Deleted node", gitEnv)
                 ELSE add_and_commit(fs, staged, commits, project_path, flows[f].files,
                                     "Updated node", gitEnv)} :
       /\ staged' = c.staged
       /\ commits' = c.commits
       /\ FlowStep(f, IF flows[f].op = "delete"
                        THEN [flows[f] EXCEPT !.pc = "done", !.result = "ok"]
                        ELSE [flows[f] EXCEPT !.pc = "committed"],
                   fs, 0)

\* return await self.read_node(path)
FlowReturn(f) ==
  /\ flows[f].pc = "committed"
  /\ \E rd \in {read_node(fs, project_path, flows[f].path, nextId, clock + 1, clock + 1)} :
       FlowStep(f, [flows[f] EXCEPT !.pc = "done",
                                    !.result = IF rd.found /\ rd.raised THEN "error" ELSE "ok",
                                    !.node = IF rd.found /\ ~rd.raised THEN rd.node ELSE NoNode],
                fs, 1)
  /\ UNCHANGED <<staged, commits>>

NextFlows ==
  \/ \E f \in FlowIds, req \in FlowRequests : Begin(f, req)
  \/ \E f \in FlowIds : UpdateRead(f)
  \/ \E f \in FlowIds : UpdateWrite(f)
  \/ \E f \in FlowIds : CreateWrite(f)
  \/ \E f \in FlowIds : DeleteRemove(f)
  \/ \E f \in FlowIds : LinkReadSource(f)
  \/ \E f \in FlowIds : LinkReadTarget(f)
  \/ \E f \in FlowIds : FlowCommit(f)
  \/ \E f \in FlowIds : FlowReturn(f)

SpecFlows == InitFlows /\ [][NextFlows]_vars

(***************************************************************************)
(* Claims about the node store (checked under Spec)                        *)
(***************************************************************************)
MutatingOps == {"create", "update", "delete", "createFolder", "saveAsTemplate"}

\* the path argument of the last request
PathArg == IF last.op \in {"create", "createFolder"} THEN last.args.parent ELSE last.args.path

\* the argument, joined to the project root and normalised, leaves the root
NormalizesOutside(p) == ~InsideRoot(PathResolve(os_path_join(project_path, p)))

\* C1: every operation that accepts a path rejects a path argument that
\* normalises to a location outside the project root: such a call does not
\* succeed and reads, writes or removes nothing outside the root.
C1_PathContainment ==
  (last.op \in MutatingOps \cup {"read"} /\ NormalizesOutside(PathArg)) =>
    /\ last.result # "ok"
    /\ \A k \in last.touched : InsideRoot(k)

\* C2: every successful mutation on an initialised repository is followed by
\* a commit: when the operation returns, the history has grown by one commit
\* that records the mutated project-root-relative paths.
C2_MutationIsCommitted ==
  (last.op \in MutatingOps /\ last.result = "ok" /\ last.wasRepo) =>
    /\ Len(commits) = last.commitsBefore + 1
    /\ last.recorded \subseteq
         (commits[Len(commits)].added \cup commits[Len(commits)].removed)

C10_CreateThenRead ==
  (last.op = "create" /\ last.result = "ok") =>
    LET n == last.node
        rd == read_node(fs, project_path, n.path, nextId, clock + 1, clock + 1)
        given == last.args.metadata
    IN  /\ rd.found
        /\ rd.node = n
        /\ n.isMarkdown
        /\ ~n.isDirectory
        /\ n.metadata["title"] = (IF "title" \in DOMAIN given THEN given["title"]
                                  ELSE RemoveMd(sanitize_filename(last.args.name)))
        /\ n.metadata["type"] = (IF "type" \in DOMAIN given THEN given["type"]
                                 ELSE last.args.type)
        /\ n.metadata["created"] = n.metadata["modified"]
        /\ n.metadata["id"] = nextId - 2
        /\ (last.args.content # NoContent => n.content = last.args.content)

\* C11: InvalidArgument is raised, and no file or directory is written, in
\* both cases: create with a name that sanitizes to the empty string, and
\* saveAsTemplate whose source node is a directory.
C11_InvalidArgument ==
  (\/ last.op = "create" /\ sanitize_filename(last.args.name) = <<>>
   \/ last.op = "saveAsTemplate"
        /\ os_path_isdir(last.before, os_path_join(project_path, last.args.path))) =>
    /\ last.result = "InvalidArgument"
    /\ last.written = {}
    /\ fs = last.before

\* C12: update on any existing node (structured file, other file or
\* directory) results in the previous metadata shallow-merged with the
\* updates, modified refreshed; the returned node and a later read both show
\* exactly that merged metadata.
C12_UpdateMergesMetadata ==
  (last.op = "update" /\ last.result = "ok") =>
    LET prev == read_node(last.before, project_path, last.args.path,
                          nextId - 2, clock, clock).node.metadata
        merged == [MapUpdate(prev, last.args.metadata) EXCEPT !["modified"] = clock]
        later == read_node(fs, project_path, last.args.path, nextId, clock + 1, clock + 1)
    IN  /\ last.node.metadata = merged
        /\ later.found
        /\ later.node.metadata = merged

\* the node the last request named: its path argument(s), joined to the
\* project root, name nothing that exists before the request
NamedPaths ==
  CASE last.op \in {"update", "delete"} -> {last.args.path}
    [] last.op = "createSoftLink" -> {last.args.source, last.args.target}
    [] last.op = "createFromTemplate" -> {last.args.template}
    [] last.op = "deleteTemplate" ->
         {os_path_join(<<"templates">>, last.args.name \o Md)}
    [] OTHER -> {}

\* C13: update, delete, createSoftLink (source or target missing),
\* createFromTemplate (template missing) and template delete fail with
\* NotFound when the named node is absent, and then the filesystem is
\* unchanged.
C13_NotFoundChangesNothing ==
  (\E p \in NamedPaths : ~os_path_exists(last.before, os_path_join(project_path, p))) =>
    /\ last.result = "NotFound"
    /\ fs = last.before
    /\ last.written = {}
    /\ last.removed = {}

\* a createSoftLink whose source exists and whose target is absent has failed
\* with NotFound
C13_Witness ==
  /\ last.op = "createSoftLink"
  /\ last.result = "NotFound"
  /\ os_path_exists(last.before, os_path_join(project_path, last.args.source))
  /\ ~os_path_exists(last.before, os_path_join(project_path, last.args.target))

\* C14: after delete(path) succeeds neither the primary file (for a
\* directory, anything in its subtree) nor its sidecar exists, and a
\* subsequent read(path) returns none rather than raising.
C14_DeleteRemovesNodeAndSidecar ==
  (last.op = "delete" /\ last.result = "ok") =>
    LET full_path == os_path_join(project_path, last.args.path)
        key == Lookup(last.before, full_path).key
        later == read_node(fs, project_path, last.args.path, nextId, clock + 1, clock + 1)
    IN  /\ \A k \in DOMAIN fs : ~IsPrefix(key, k)
        /\ ~os_path_exists(fs, full_path)
        /\ ~os_path_exists(fs, full_path \o MetadataSuffix)
        /\ ~later.found
        /\ ~later.raised

\* a delete has removed a node together with the sidecar it had
C14_Witness ==
  /\ last.op = "delete"
  /\ last.result = "ok"
  /\ os_path_exists(last.before,
                    os_path_join(project_path, last.args.path) \o MetadataSuffix)
  /\ Cardinality(last.removed) >= 2

\* the links a read of path shows in the filesystem fsys
LinksAt(fsys, path) == links_of(read_node(fsys, project_path, path, 0, 0, 0).node)

\* C15: for two existing nodes A and B of any kind, createSoftLink(A, B)
\* puts B into A's links, a second createSoftLink(A, B) leaves A's links as
\* they are, removeSoftLink(A, id) leaves no occurrence of id, and
\* removeSoftLink with an id that is not in A's links changes nothing and
\* raises no error.
C15_SoftLinkIdempotent ==
  [][/\ (last'.op = "createSoftLink" /\ last'.result = "ok") =>
          /\ LinksAt(fs', last'.args.source) # <<>>
          /\ (last.op = "createSoftLink" /\ last.result = "ok" /\ last.args = last'.args) =>
               LinksAt(fs', last'.args.source) = LinksAt(fs, last'.args.source)
     /\ (last'.op = "removeSoftLink"
           /\ os_path_exists(fs, os_path_join(project_path, last'.args.source))) =>
          /\ last'.result = "ok"
          /\ last'.args.id \notin Range(LinksAt(fs', last'.args.source))
          /\ (last'.args.id \notin Range(LinksAt(fs, last'.args.source)) => fs' = fs)
    ]_vars

\* C16: node identity is stable: two reads of the same path with no
\* mutation in between return the same metadata.id.
C16_IdStableAcrossReads ==
  [][(/\ last.op = "read" /\ last.result = "ok"
      /\ last'.op = "read" /\ last'.result = "ok"
      /\ last'.args = last.args) =>
       last'.node.metadata["id"] = last.node.metadata["id"]
    ]_vars

\* the paths of the nodes of the last listing
ListedPaths == {n.path : n \in last.nodes}

\* C17: a listing with the default excludeTemplates = true returns no node
\* whose path has a segment equal to "templates", at any depth, directory or
\* file; a listing of the whole tree with excludeTemplates = false includes
\* the nodes under templates/.
C17_ListExcludesTemplates ==
  (last.op = "list" /\ last.result = "ok") =>
    /\ last.args.exclude_templates =>
         \A pt \in ListedPaths : <<"templates">> \notin Range(Segs(pt))
    /\ (~last.args.exclude_templates /\ last.args.directory = <<>>) =>
         \A k \in DOMAIN fs :
           (IsPrefix(Append(ProjectRoot, <<"templates">>), k)
              /\ \A i \in (Len(ProjectRoot) + 1)..Len(k) : ~starts_with_dot(k[i])
              /\ ~EndsWith(k[Len(k)], MetadataSuffix))
             => rel_root_of(k, ProjectRoot) \in ListedPaths

\* C18: a listing never yields a hidden entry (a name starting with ".", or
\* anything inside a directory with such a name) and never yields a sidecar
\* file as a node of its own.
C18_ListSkipsHiddenAndSidecars ==
  (last.op = "list" /\ last.result = "ok") =>
    \A pt \in ListedPaths :
      /\ \A i \in DOMAIN Segs(pt) : ~starts_with_dot(Segs(pt)[i])
      /\ ~EndsWith(pt, MetadataSuffix)

\* the entries of the tree that are nodes: below the root, no hidden name on
\* the way, not a sidecar, outside every templates directory
ExistingNodePaths(fsys) ==
  {rel_root_of(k, ProjectRoot) :
     k \in {e \in DOMAIN fsys :
              /\ IsPrefix(ProjectRoot, e) /\ e # ProjectRoot
              /\ \A i \in (Len(ProjectRoot) + 1)..Len(e) :
                   ~starts_with_dot(e[i]) /\ e[i] # <<"templates">>
              /\ ~EndsWith(e[Len(e)], MetadataSuffix)}}

\* C19: a listing of the whole tree returns exactly the nodes created and not
\* yet deleted: one node for every entry of the tree that is a node, and
\* nothing else.
C19_ListReturnsExistingNodes ==
  (last.op = "list" /\ last.result = "ok" /\ last.args.directory = <<>>
     /\ last.args.exclude_templates) =>
    ListedPaths = ExistingNodePaths(fs)

\* where the default template lives
DefaultTemplate == os_path_join(os_path_join(project_path, <<"templates">>), <<"Empty", ".md">>)

\* C20: ensureDefaultTemplate is idempotent and never overwrites: after a call
\* the default template exists under templates/, and a call made when it
\* already exists leaves the whole tree, so its content and its created
\* timestamp, as it was.
C20_EnsureNeverOverwrites ==
  last.op = "ensureDefaultTemplate" =>
    /\ last.result = "ok"
    /\ os_path_exists(fs, DefaultTemplate)
    /\ os_path_exists(last.before, DefaultTemplate) =>
         /\ fs = last.before
         /\ last.written = {}
         /\ ~last.committing

\* a call on a tree that already holds the default template, and a call that
\* had to create it, both happen
C20_Witness ==
  /\ last.op = "ensureDefaultTemplate"
  /\ last.result = "ok"
  /\ os_path_exists(last.before, DefaultTemplate)
  /\ Lookup(fs, DefaultTemplate).key \in DOMAIN fs
  /\ fs[Lookup(fs, DefaultTemplate).key].text
       \notin {bundled_template_content(clock), fallback_template_content(clock, clock)}

\* the call that creates the default template after it was deleted
C20_WitnessCreated ==
  /\ last.op = "ensureDefaultTemplate"
  /\ ~os_path_exists(last.before, DefaultTemplate)
  /\ os_path_exists(fs, DefaultTemplate)

\* the file a path names, decoded: its frontmatter and its body
Decoded(fsys, path) ==
  parse_markdown_with_frontmatter(fsys[Lookup(fsys, os_path_join(project_path, path)).key].text)

\* the node a path named before the last request
SourceNode(path) == read_node(last.before, project_path, path, 0, 0, 0).node

\* C21: saveAsTemplate on a file node writes a template under templates/
\* whose metadata has no id and no position, whose links are empty and whose
\* task, if the source had one, is reset with the source's priority and
\* description; the template body equals the source body; the source file is
\* left unchanged.
C21_SaveAsTemplateStripsIdentity ==
  (last.op = "saveAsTemplate" /\ last.result = "ok") =>
    LET tpl == Decoded(fs, <<"templates", Slash>> \o md_filename(sanitize_filename(last.args.name)))
        src == SourceNode(last.args.path)
        srcKey == Lookup(fs, os_path_join(project_path, last.args.path)).key
    IN  /\ ~tpl.raised
        /\ "id" \notin DOMAIN tpl.metadata
        /\ "position" \notin DOMAIN tpl.metadata
        /\ tpl.metadata["links"] = <<>>
        /\ "task" \in DOMAIN src.metadata =>
             tpl.metadata["task"] = reset_task(src.metadata["task"])
        /\ tpl.body = (IF src.content = NoContent THEN <<>> ELSE src.content)
        /\ fs[srcKey] = last.before[srcKey]

\* the ids stored in the structured files of a tree
StoredIds(fsys) ==
  {parse_markdown_with_frontmatter(fsys[k].text).metadata["id"] :
     k \in {e \in DOMAIN fsys :
              /\ IsFileKey(fsys, e)
              /\ ~parse_markdown_with_frontmatter(fsys[e].text).raised
              /\ "id" \in DOMAIN parse_markdown_with_frontmatter(fsys[e].text).metadata}}

\* C22: createFromTemplate on an existing template creates a node under
\* parentPath (nodes/ when parentPath is empty) with a fresh id, title = name
\* unless overridden, fresh timestamps, the overrides applied and the template
\* body with its placeholders substituted; the template itself is unchanged.
C22_CreateFromTemplate ==
  (last.op = "createFromTemplate" /\ last.result = "ok") =>
    LET tpl == SourceNode(last.args.template)
        tplKey == Lookup(fs, os_path_join(project_path, last.args.template)).key
        new == last.node
        parent == IF last.args.parent # <<>> THEN last.args.parent ELSE <<"nodes">>
    IN  /\ new.path = os_path_join(parent, md_filename(sanitize_filename(last.args.name)))
        /\ new.metadata["id"] \notin StoredIds(last.before)
        /\ new.metadata["title"] = (IF "title" \in DOMAIN last.args.metadata
                                      THEN last.args.metadata["title"] ELSE last.args.name)
        /\ new.metadata["created"] = clock
        /\ new.metadata["modified"] >= clock
        /\ \A k \in DOMAIN last.args.metadata : new.metadata[k] = last.args.metadata[k]
        /\ new.content = replace_placeholders(
                           tpl.content, last.args.name,
                           IF "description" \in DOMAIN new.metadata
                             THEN new.metadata["description"] ELSE <<>>)
        /\ fs[tplKey] = last.before[tplKey]

\* the listing search filters: list() on the tree the request found
ListedBefore == list_nodes(last.before, {}, <<>>, project_path, <<>>, TRUE, 0, 0).nodes

\* C23: search returns exactly the nodes of list() that satisfy every
\* supplied predicate (type, hasTask, case-insensitive query in the title or
\* the body) and never raises for a node list() can return.
C23_SearchFiltersList ==
  last.op = "search" =>
    /\ last.result = "ok"
    /\ {n.path : n \in last.nodes} =
         {n.path : n \in {m \in ListedBefore :
            /\ last.args.type # "" =>
                 ("type" \in DOMAIN m.metadata /\ m.metadata["type"] = last.args.type)
            /\ last.args.has_task # "None" => m.hasTask = (last.args.has_task = "True")
            /\ last.args.query # <<>> =>
                 \/ Infix(lower(last.args.query), lower(m.metadata["title"]))
                 \/ content_match(lower(last.args.query), m.content)}}

(***************************************************************************)
(* Claims about concurrent requests (checked under SpecFlows)              *)
(***************************************************************************)
\* flows f and g both wrote the shared node, g last, and g had read the node
\* before f wrote it
Interleaved(f, g) ==
  /\ f # g
  /\ flows[f].pc = "done" /\ flows[g].pc = "done"
  /\ flows[f].op \in {"update", "link"} /\ flows[g].op \in {"update", "link"}
  /\ flows[f].wroteAt > 0
  /\ flows[g].readAt < flows[f].wroteAt
  /\ flows[f].wroteAt < flows[g].wroteAt

\* C24: concurrent updates of one node are neither serialized nor
\* version-checked: when two update (or createSoftLink) flows interleave at
\* their suspension points, both return successfully and the node on disk
\* reflects only the last write: what the last writer had read, with its own
\* changes.
C24_LastWriteWins ==
  \A f \in FlowIds, g \in FlowIds :
    Interleaved(f, g) =>
      /\ flows[f].result = "ok"
      /\ flows[g].result = "ok"
      /\ Decoded(fs, SharedPath).metadata =
           [MapUpdate(flows[g].base.metadata, flows[g].updates)
              EXCEPT !["modified"] = flows[g].wroteAt]

\* two updates of different keys interleaved, and the change of the first
\* writer is not on disk
C24_Witness ==
  \E f \in FlowIds, g \in FlowIds :
    /\ Interleaved(f, g)
    /\ flows[f].op = "update" /\ flows[g].op = "update"
    /\ \E k \in DOMAIN flows[f].updates :
         /\ k \notin DOMAIN flows[g].updates
         /\ ~(k \in DOMAIN Decoded(fs, SharedPath).metadata
                /\ Decoded(fs, SharedPath).metadata[k] = flows[f].updates[k])

\* C29: a deleted node stays deleted: once a delete of the path has
\* completed, no step other than the write of a create makes the path exist
\* again.
C29_DeletedStaysDeleted ==
  [][(/\ \E d \in FlowIds : /\ flows[d].op = "delete"
                            /\ flows[d].pc = "done"
                            /\ flows[d].result = "ok"
      /\ ~os_path_exists(fs, os_path_join(project_path, SharedPath))
      /\ os_path_exists(fs', os_path_join(project_path, SharedPath)))
       => \E f \in FlowIds : /\ flows[f].op = "create"
                             /\ flows[f].pc = "start"
                             /\ flows'[f].pc = "written"
    ]_vars

(***************************************************************************)
(* Further claims about the node store (checked under Spec)                *)
(***************************************************************************)
\* the derived fields of a node agree with its metadata
DerivedFieldsHold(n) ==
  /\ n.isDirectory => n.content = NoContent
  /\ (~n.isDirectory /\ ~n.isMarkdown) => n.content = NoContent
  /\ n.softLinks = (IF "links" \in DOMAIN n.metadata THEN n.metadata["links"] ELSE <<>>)
  /\ n.hasTask = ("task" \in DOMAIN n.metadata)
  /\ n.taskStatus = (IF "task" \in DOMAIN n.metadata /\ "status" \in DOMAIN n.metadata["task"]
                       THEN n.metadata["task"].status ELSE "none")

\* C25: read and list do not raise, and every node they return satisfies the
\* derived-field invariants (no content for directories and non-structured
\* files, softLinks = metadata.links, hasTask, taskStatus).
C25_DerivedFields ==
  (last.op \in {"read", "list"} /\ last.result # "none") =>
    /\ last.result = "ok"
    /\ last.op = "read" => DerivedFieldsHold(last.node)
    /\ \A n \in last.nodes : DerivedFieldsHold(n)

\* where create writes: parentPath + sanitized name + structured suffix
CreateTarget(args) ==
  os_path_join(IF args.parent # <<>> THEN os_path_join(project_path, args.parent)
               ELSE project_path,
               md_filename(sanitize_filename(args.name)))

\* C26: create never destroys an existing node: when the target path already
\* holds a node, create fails or leaves the stored node, its id, metadata and
\* content, unchanged.
C26_CreateKeepsExistingNode ==
  (last.op = "create" /\ os_path_exists(last.before, CreateTarget(last.args))) =>
    \/ last.result # "ok"
    \/ fs[Lookup(fs, CreateTarget(last.args)).key]
         = last.before[Lookup(last.before, CreateTarget(last.args)).key]

\* the sidecar of a path: same path + reserved suffix
SidecarOf(path) == os_path_join(project_path, path) \o MetadataSuffix

\* the sidecars a tree holds for the file at a key
SidecarsOf(fsys, key) ==
  {k \in DOMAIN fsys :
     /\ Len(k) = Len(key)
     /\ SubSeq(k, 1, Len(k) - 1) = SubSeq(key, 1, Len(key) - 1)
     /\ IsPrefix(key[Len(key)], k[Len(k)])
     /\ EndsWith(k[Len(k)], MetadataSuffix)}

\* the last request updated a file that is not structured
UpdatedPlainFile ==
  /\ last.op = "update"
  /\ last.result = "ok"
  /\ os_path_exists(last.before, os_path_join(project_path, last.args.path))
  /\ ~SourceNode(last.args.path).isDirectory
  /\ ~SourceNode(last.args.path).isMarkdown

\* C27: update on a non-structured file leaves the file itself unchanged and
\* writes the merged metadata only to its one sidecar, with an empty body;
\* the file has exactly one sidecar afterwards.
C27_UpdateWritesSidecarOnly ==
  UpdatedPlainFile =>
    LET key == Lookup(fs, os_path_join(project_path, last.args.path)).key
        sideKey == Lookup(fs, SidecarOf(last.args.path)).key
        side == parse_markdown_with_frontmatter(fs[sideKey].text)
        prev == SourceNode(last.args.path).metadata
    IN  /\ fs[key] = last.before[key]
        /\ last.written = {sideKey}
        /\ \A k \in DOMAIN fs : k # sideKey => (k \in DOMAIN last.before /\ fs[k] = last.before[k])
        /\ SidecarsOf(fs, key) = {sideKey}
        /\ ~side.raised
        /\ side.body \in {<<>>, <<EmptyLine>>}
        /\ \A k \in DOMAIN last.args.metadata : side.metadata[k] = last.args.metadata[k]
        /\ side.metadata["modified"] = clock
        /\ \A k \in DOMAIN prev \ (DOMAIN last.args.metadata \cup {"id", "created", "modified"}) :
             side.metadata[k] = prev[k]
        /\ os_path_exists(last.before, SidecarOf(last.args.path)) =>
             /\ side.metadata["id"] = prev["id"]
             /\ side.metadata["created"] = prev["created"]

\* a second update of a non-structured file, with a content, that merges a
\* new key into the sidecar the first update wrote
C27_Witness ==
  /\ UpdatedPlainFile
  /\ os_path_exists(last.before, SidecarOf(last.args.path))
  /\ last.args.content # NoContent
  /\ \E k \in DOMAIN SourceNode(last.args.path).metadata :
       k \notin DOMAIN last.args.metadata \cup {"id", "title", "type", "created", "modified"}

\* what read returns for a path in the current tree
ReadNow(path) == read_node(fs, project_path, path, 0, 0, 0)

\* the directories of the project, the root included, as node paths
DirectoryPaths ==
  {rel_root_of(k, ProjectRoot) :
     k \in {e \in DOMAIN fs : IsPrefix(ProjectRoot, e) /\ fs[e].kind = "dir"}}

\* hardLinks.parent as a path: none, at the root, names the root
ParentPath(node) == IF node.parent = NoParent THEN <<>> ELSE node.parent

\* C28: hard links are mutually consistent in every reachable state: every
\* child of a directory node (the root included) exists and reads back with
\* that directory as its parent, and every node below a subdirectory has an
\* existing directory as parent whose children include the node's path.
C28_HardLinksConsistent ==
  \A d \in DirectoryPaths :
    ReadNow(d).found /\ ~ReadNow(d).raised =>
      \A c \in ReadNow(d).node.children :
        /\ ReadNow(c).found
        /\ ~ReadNow(c).raised
        /\ ParentPath(ReadNow(c).node) = ReadNow(d).node.path
        /\ (d # <<>>) =>
             /\ ReadNow(ReadNow(c).node.parent).found
             /\ ReadNow(ReadNow(c).node.parent).node.isDirectory
             /\ c \in ReadNow(ReadNow(c).node.parent).node.children

\* the directory of the templates, as a key of the tree
TemplatesKey == Lookup(fs, os_path_join(project_path, <<"templates">>)).key

\* where saveAsTemplate stores a template of a given name
SavedTemplatePath(name) ==
  os_path_join(os_path_join(project_path, <<"templates">>), md_filename(sanitize_filename(name)))

\* C30: delete(templateName) removes nothing outside templates/, whatever the
\* name, and removes the template that saveAsTemplate stored under the same
\* name.
C30_DeleteTemplateStaysInTemplates ==
  last.op = "deleteTemplate" =>
    /\ \A k \in last.removed : IsPrefix(TemplatesKey, k) /\ k # TemplatesKey
    /\ os_path_exists(last.before, SavedTemplatePath(last.args.name)) =>
         /\ last.result = "ok"
         /\ ~os_path_exists(fs, SavedTemplatePath(last.args.name))
====
